---- MODULE Spec2Model ----
(***************************************************************************)
(* Model of the dirstudio scan-and-analyze engine.                         *)
(*                                                                         *)
(*   core/filesystem.py   FilesystemTree: DirNode heap, attach_file, merge *)
(*   core/processor.py    threaded Processor / ProcessorPool               *)
(*   services/scan.py     Scanner.scan (walk, then ProcessorPool)          *)
(*   core/worker.py       asyncio Worker / WorkerPool                      *)
(*                                                                         *)
(* DirNode objects are mutable and are shared by reference, so they live   *)
(* in a heap (a sequence of records, a node's identity is its index).      *)
(* FileNode objects are never mutated after construction and are values.   *)
(* Paths are sequences of components as pathlib's Path.parts gives them:   *)
(* "/r/a/f2" is <<"/", "r", "a", "f2">>.                                   *)
(***************************************************************************)
EXTENDS Integers, Sequences, FiniteSets, TLC

VARIABLES
    heap,        \* Seq of DirNode records: every DirNode object ever built
    trees,       \* FilesystemTree objects, by tree id
    last,        \* history: the last tree operation and the trees before it
    merged,      \* history: the pairs <<target, source>> merged so far
    ops,         \* number of tree operations performed (SpecTree)
    \* services/scan.py and core/processor.py (SpecScan)
    file_queue,  \* Queue(maxsize=config.MAX_QUEUE_SIZE): paths and sentinels
    scan_pc,     \* where Scanner.scan is: walk, wait, join, done
    to_walk,     \* the files _walk has still to reach, in scandir order
    sent,        \* sentinels ProcessorPool.wait has put
    p_pc,        \* where each Processor thread is
    p_path,      \* the path a Processor is working on
    p_i,         \* _chain_path's loop position of a Processor's attach
    p_node,      \* _chain_path's current_node of a Processor's attach
    p_lock,      \* Processor.lock: held or not, one lock per Processor
    \* core/worker.py (SpecPool)
    task_queue,  \* asyncio.Queue(maxsize=max_queue_size): tasks, sentinels
    pool_pc,     \* where the pool's caller is: start, add, stop, wait, ...
    tasks,       \* the tasks the caller has still to add
    stop_i,      \* sentinels stop_workers has put
    merge_i,     \* the worker tree merge_trees merges next
    w_pc,        \* where each Worker.run is
    w_task,      \* the task a Worker is processing
    w_stats,     \* WorkerStats: files_processed and errors
    w_running,   \* Worker._running of each worker
    \* history shared by the two pipelines
    enqueued,    \* the files put on the queue so far
    got,         \* per worker, the items it has dequeued, in order
    failed,      \* the files whose processing failed
    stopped,     \* the workers whose stop() was called
    \* what Scanner.scan is given (SpecWalk)
    disk,        \* the regular files under the scan root, by path
    scanner,     \* the Scanner's exclude and max_depth, and scan's root
    io_errors,   \* the entries and listings of the disk that raise OSError
    \* services/duplicate.py DuplicateDetector (SpecDup)
    sha256_index,      \* _sha256_index: sha256 -> list of FileNodes
    phash_index,       \* _phash_index: phash -> list of FileNodes
    exact_duplicates,  \* exact_duplicates: group_id -> DuplicateGroup
    near_duplicates,   \* near_duplicates: group_id -> DuplicateGroup
    dup_last,          \* history: the detector's last call and what it raised
    added,             \* history: the FileNodes added, in order
    dup_group,         \* a DuplicateGroup of its own (SpecGroup)
    \* calls of functions that read and write no object's state
    args,              \* the arguments of the call
    result,            \* what the call returned, once it has
    \* objects of the services, each with a specification of its own
    bktree,            \* a BKTree: its Node objects, the root first
    bk_added,          \* history: the (phash, file_node) pairs added
    filesystem,        \* the files and directories a Transformer works on
    transformer,       \* a Transformer: dry_run and results
    scans,             \* the scans table: status, tree_json, error by scan_id
    task               \* perform_scan_task of each scan: where it is, its tree

treeVars == <<heap, trees, last, merged, ops>>
scanVars == <<file_queue, scan_pc, to_walk, sent,
              p_pc, p_path, p_i, p_node, p_lock>>
poolVars == <<task_queue, pool_pc, tasks, stop_i, merge_i,
              w_pc, w_task, w_stats, w_running>>
histVars == <<enqueued, got, failed, stopped>>
walkVars == <<disk, scanner, io_errors>>
dupVars == <<sha256_index, phash_index, exact_duplicates, near_duplicates,
             dup_last, added, dup_group>>

pureVars == <<args, result>>

bkVars == <<bktree, bk_added>>

transformVars == <<filesystem, transformer>>

apiVars == <<scans, task>>

serviceVars == <<bkVars, transformVars, apiVars>>

vars == <<treeVars, scanVars, poolVars, histVars, walkVars, serviceVars, dupVars,
          pureVars>>

----------------------------------------------------------------------------
(* Bounds *)

MaxOps == 4          \* tree operations per behaviour of SpecTree
NumTrees == 2        \* FilesystemTree objects of SpecTree
MaxFiles == 3        \* tasks given to the worker pool, at most
NumWorkers == 2      \* num_workers (config.DEFAULT_WORKERS is 4)
MAX_QUEUE_SIZE == 2  \* config.MAX_QUEUE_SIZE (10000), scaled down
max_queue_size == 2  \* WorkerPool(max_queue_size=1000), scaled down

----------------------------------------------------------------------------
(* Inputs *)

None == 0

\* the queue's stop signal (None on a queue of paths): no path equals it
Sentinel == <<"None">>

\* the directory being scanned: FilesystemTree(root_path=...)
ScanRoot == <<"/", "r">>

\* regular files under the scan root (a root with one subdirectory)
FilePaths == { <<"/", "r", "f1">>, <<"/", "r", "a", "f2">> }

\* the (metadata, hashes) a file is attached with
Versions == {1, 2}

TreeIds == 1..NumTrees

\* the regular, non-excluded files under the scan root in the order the
\* walker reaches them: odd ones in the root, even ones in subdirectory a
FileNames == <<"f1", "f2", "f3", "f4", "f5", "f6">>

Discovered(k) ==
    IF k % 2 = 1 THEN <<"/", "r", FileNames[k]>>
                 ELSE <<"/", "r", "a", FileNames[k]>>

Workers == 1..NumWorkers

\* Metadata.extract(path) of a regular file
FileMetadata(path) == [path |-> path, tag |-> "FILE"]

----------------------------------------------------------------------------
(* Paths *)

Range(s) == { s[i] : i \in DOMAIN s }

\* Path(p).parent
Parent(p) == SubSeq(p, 1, Len(p) - 1)

\* the first i parts of p joined: current_path of _chain_path's loop
Prefix(p, i) == SubSeq(p, 1, i)

IsPrefix(r, p) == Len(r) <= Len(p) /\ SubSeq(p, 1, Len(r)) = r

\* str(Path(p).resolve()) of an absolute path: "." components disappear
Resolve(p) == SelectSeq(p, LAMBDA c : c # ".")

----------------------------------------------------------------------------
(* core/filesystem.py                                                      *)
(*                                                                         *)
(* The operations take and return a pair [heap, tree] (and the node they   *)
(* return, where they return one).  Where a result is used more than once  *)
(* it is bound as  CHOOSE r \in { F(x) : x \in {e} } : TRUE,  which is     *)
(* LET x == e IN F(x) with e evaluated once.                               *)

\* FileNode(path, metadata, hashes)
FileNode(path, metadata, hashes) ==
    [path |-> path, metadata |-> metadata, hashes |-> hashes]

\* Metadata.extract(current_path) for a directory
DirMetadata(path) == [path |-> path, tag |-> "DIRECTORY"]

\* DirNode(path, metadata): files and subdirs default to empty lists
DirNode(path) ==
    [path |-> path, metadata |-> DirMetadata(path),
     files |-> <<>>, subdirs |-> <<>>]

\* FilesystemTree.__init__
NewTree(root_path) ==
    [root_path |-> root_path, root |-> None, path_index |-> <<>>]

\* self._path_index[path] = node
IndexPut(idx, path, node) ==
    (path :> node) @@ idx

\* _chain_path, loop body for a missing directory (lines 117-146):
\* build the DirNode, index it, link it to its parent or make it the root
ChainCreate(st, current_path, current_node) ==
    LET n   == Len(st.heap) + 1
        h1  == Append(st.heap, DirNode(current_path))
        idx == IndexPut(st.tree.path_index, current_path, n)
    IN  IF current_node # None
        THEN [heap |-> [h1 EXCEPT ![current_node].subdirs = Append(@, n)],
              tree |-> [st.tree EXCEPT !.path_index = idx],
              node |-> n]
        ELSE [heap |-> h1,
              tree |-> [st.tree EXCEPT !.path_index = idx,
                                       !.root = n,
                                       !.root_path = current_path],
              node |-> n]

\* _chain_path, the loop over Path(parent_path).parts from part i on
RECURSIVE ChainLoop(_, _, _, _)
ChainLoop(st, parts, i, current_node) ==
    IF i > Len(parts)
    THEN [heap |-> st.heap, tree |-> st.tree, node |-> current_node]
    ELSE LET current_path == Prefix(parts, i)
         IN  IF current_path \in DOMAIN st.tree.path_index
             THEN ChainLoop(st, parts, i + 1,
                            st.tree.path_index[current_path])
             ELSE CHOOSE r \in
                    { ChainLoop([heap |-> c.heap, tree |-> c.tree],
                                parts, i + 1, c.node) :
                      c \in {ChainCreate(st, current_path,
                                         current_node)} } : TRUE

\* FilesystemTree._chain_path
chain_path(st, file_path) ==
    LET fp          == Resolve(file_path)
        parent_path == Parent(fp)
    IN  IF parent_path \in DOMAIN st.tree.path_index
        THEN [heap |-> st.heap, tree |-> st.tree,
              node |-> st.tree.path_index[parent_path]]
        ELSE ChainLoop(st, parent_path, 1, None)

\* FilesystemTree.attach_file
attach_file(st, path, metadata, hashes) ==
    LET p         == Resolve(path)
        file_node == FileNode(p, metadata, hashes)
    IN  CHOOSE r \in
          { [heap |-> [c.heap EXCEPT ![c.node].files = Append(@, file_node)],
             tree |-> c.tree] :
            c \in {chain_path(st, p)} } : TRUE

\* FilesystemTree._rebuild_index, the BFS over the queue of nodes
RECURSIVE IndexBfs(_, _, _)
IndexBfs(h, queue, idx) ==
    IF queue = <<>> THEN idx
    ELSE LET node == Head(queue)
         IN  IndexBfs(h, Tail(queue) \o h[node].subdirs,
                      IndexPut(idx, h[node].path, node))

\* FilesystemTree._rebuild_index
rebuild_index(h, tree) ==
    IF tree.root = None THEN tree
    ELSE [tree EXCEPT !.path_index = IndexBfs(h, <<tree.root>>, <<>>)]

\* existing_subdirs = {d.path: d for d in target.subdirs}: on equal paths
\* the later entry wins
RECURSIVE SubdirMap(_, _, _)
SubdirMap(h, subdirs, m) ==
    IF subdirs = <<>> THEN m
    ELSE SubdirMap(h, Tail(subdirs),
                   IndexPut(m, h[Head(subdirs)].path, Head(subdirs)))

\* a wrong file merge: on equal paths the source's FileNode replaces the
\* target's
MergeFilesSourceWins(target_files, source_files) ==
    LET source_paths == { f.path : f \in Range(source_files) }
    IN  SelectSeq(target_files, LAMBDA f : f.path \notin source_paths)
          \o source_files

\* a wrong file merge: the source's files are not taken over
MergeFilesTargetOnly(target_files, source_files) == target_files

\* _merge_dirs, "Merge files (avoid duplicates by path)" (lines 193-197)
MergeFiles(target_files, source_files) ==
    LET existing_paths == { f.path : f \in Range(target_files) }
    IN  target_files
          \o SelectSeq(source_files,
                       LAMBDA f : f.path \notin existing_paths)

\* FilesystemTree._merge_dirs
RECURSIVE merge_dirs(_, _, _)
RECURSIVE MergeSubdirs(_, _, _, _, _)

\* the loop "for source_subdir in source.subdirs" from position i on
MergeSubdirs(h, target, source, existing_subdirs, i) ==
    IF i > Len(h[source].subdirs) THEN h
    ELSE LET source_subdir == h[source].subdirs[i]
         IN  CHOOSE r \in
               { MergeSubdirs(h1, target, source, existing_subdirs, i + 1) :
                 h1 \in { IF h[source_subdir].path
                                \in DOMAIN existing_subdirs
                          THEN merge_dirs(h,
                                 existing_subdirs[h[source_subdir].path],
                                 source_subdir)
                          ELSE [h EXCEPT ![target].subdirs =
                                            Append(@, source_subdir)] } } :
               TRUE

merge_dirs(h, target, source) ==
    CHOOSE r \in
      { MergeSubdirs(h1, target, source,
                     SubdirMap(h1, h1[target].subdirs, <<>>), 1) :
        h1 \in { [h EXCEPT ![target].files =
                     MergeFiles(h[target].files, h[source].files)] } } : TRUE

\* FilesystemTree.merge: self is st.tree, other is another tree
merge(st, other) ==
    IF other.root = None THEN st
    ELSE IF st.tree.root = None
    THEN [heap |-> st.heap,
          tree |-> rebuild_index(st.heap,
                     [st.tree EXCEPT !.root = other.root,
                                     !.root_path = other.root_path])]
    ELSE CHOOSE r \in
           { [heap |-> h1, tree |-> rebuild_index(h1, st.tree)] :
             h1 \in {merge_dirs(st.heap, st.tree.root, other.root)} } : TRUE

\* FilesystemTree.traverse: BFS, the files of each node in list order
RECURSIVE TraverseBfs(_, _)
TraverseBfs(h, queue) ==
    IF queue = <<>> THEN <<>>
    ELSE h[Head(queue)].files
           \o TraverseBfs(h, Tail(queue) \o h[Head(queue)].subdirs)

traverse(h, tree) ==
    IF tree.root = None THEN <<>> ELSE TraverseBfs(h, <<tree.root>>)

\* the DirNode objects compute_stats counts: BFS from the root
RECURSIVE DirsBfs(_, _)
DirsBfs(h, queue) ==
    IF queue = <<>> THEN <<>>
    ELSE <<Head(queue)>>
           \o DirsBfs(h, Tail(queue) \o h[Head(queue)].subdirs)

ReachableDirs(h, tree) ==
    IF tree.root = None THEN <<>> ELSE DirsBfs(h, <<tree.root>>)

\* FilesystemTree.__len__
TreeLen(h, tree) == Len(traverse(h, tree))

----------------------------------------------------------------------------
(* What is reachable from a tree: its files in traverse order and the      *)
(* paths of its directories in BFS order.                                  *)

View(h, tree) ==
    [files |-> traverse(h, tree),
     dirs  |-> [i \in DOMAIN ReachableDirs(h, tree) |->
                   h[ReachableDirs(h, tree)[i]].path]]

Views(h, ts) == [t \in DOMAIN ts |-> View(h, ts[t])]

FilesAt(files, path) == SelectSeq(files, LAMBDA f : f.path = path)

----------------------------------------------------------------------------
(* The pipelines that are not running *)

ScanIdle ==
    /\ file_queue = <<>> /\ scan_pc = "off" /\ to_walk = <<>> /\ sent = 0
    /\ p_pc = <<>> /\ p_path = <<>> /\ p_i = <<>> /\ p_node = <<>>
    /\ p_lock = <<>>

\* max_depth=None
NoMaxDepth == -1

\* a disk on which no call raises: io_errors.entry holds the entries whose
\* is_file / is_dir raises, io_errors.listing the directories whose
\* listing raises, each with the number of entries it yields before
NoIoErrors == [entry |-> {}, listing |-> {}]

WalkIdle ==
    /\ disk = {}
    /\ scanner = [exclude |-> {}, max_depth |-> NoMaxDepth, root |-> <<>>]
    /\ io_errors = NoIoErrors

PureIdle == args = <<>> /\ result = <<>>

\* BKTree(): self.root = None
BKIdle == bktree = <<>> /\ bk_added = <<>>

TransformIdle == filesystem = <<>> /\ transformer = <<>>

ApiIdle == scans = <<>> /\ task = <<>>

ServiceIdle == BKIdle /\ TransformIdle /\ ApiIdle

DupIdle ==
    /\ sha256_index = <<>> /\ phash_index = <<>>
    /\ exact_duplicates = <<>> /\ near_duplicates = <<>>
    /\ dup_last = [op |-> "off"] /\ added = <<>>
    /\ dup_group = <<>>

PoolIdle ==
    /\ task_queue = <<>> /\ pool_pc = "off" /\ tasks = <<>> /\ stop_i = 0
    /\ merge_i = 0 /\ w_pc = <<>> /\ w_task = <<>> /\ w_stats = <<>>
    /\ w_running = <<>>

----------------------------------------------------------------------------
(* SpecTree: any sequence of attach_file and merge on NumTrees trees that  *)
(* were constructed for the same scan root.                                *)

InitTree ==
    /\ heap = <<>>
    /\ trees = [t \in TreeIds |-> NewTree(ScanRoot)]
    /\ last = [op |-> "init"]
    /\ merged = {}
    /\ ops = 0
    /\ ScanIdle
    /\ PoolIdle
    /\ WalkIdle
    /\ DupIdle
    /\ ServiceIdle
    /\ PureIdle
    /\ enqueued = {} /\ got = <<>> /\ failed = {} /\ stopped = {}

\* trees[t].attach_file(path, metadata v, hashes v)
AttachFile(t, path, v) ==
    /\ ops < MaxOps
    /\ \E r \in {attach_file([heap |-> heap, tree |-> trees[t]],
                               path, v, v)} :
           /\ heap' = r.heap
           /\ trees' = [trees EXCEPT ![t] = r.tree]
    /\ last' = [op |-> "attach", tree |-> t, path |-> path, version |-> v,
                before |-> Views(heap, trees)]
    /\ ops' = ops + 1
    /\ UNCHANGED <<walkVars, serviceVars, dupVars, pureVars,
                   merged, scanVars, poolVars, histVars>>

\* trees[t].merge(trees[o])
Merge(t, o) ==
    /\ ops < MaxOps
    /\ t # o
    /\ \E r \in {merge([heap |-> heap, tree |-> trees[t]], trees[o])} :
           /\ heap' = r.heap
           /\ trees' = [trees EXCEPT ![t] = r.tree]
    \* merge has no raise statement: it returns None whatever the roots are
    /\ last' = [op |-> "merge", tree |-> t, other |-> o, raised |-> "nothing",
                before |-> Views(heap, trees)]
    /\ merged' = merged \cup {<<t, o>>}
    /\ ops' = ops + 1
    /\ UNCHANGED <<walkVars, serviceVars, dupVars, pureVars,
                   scanVars, poolVars, histVars>>

NextTree ==
    \/ \E t \in TreeIds, path \in FilePaths, v \in Versions :
          AttachFile(t, path, v)
    \/ \E t \in TreeIds, o \in TreeIds : Merge(t, o)

SpecTree == InitTree /\ [][NextTree]_vars

----------------------------------------------------------------------------
(* Properties of attach_file and merge (SpecTree) *)

NowFiles(t) == traverse(heap, trees[t])

NowDirs(t) == View(heap, trees[t]).dirs

Distinct(s) == \A i, j \in DOMAIN s : i # j => s[i] # s[j]

FilePathsOf(files) == [i \in DOMAIN files |-> files[i].path]

\* C5: after any sequence of attach_file and merge, every path of a tree
\* occurs at exactly one node: no two FileNodes and no two DirNodes share a
\* path, and no path is both a FileNode's and a DirNode's.
C5_EveryPathAtOneNode ==
    \A t \in TreeIds :
        /\ Distinct(FilePathsOf(NowFiles(t)))
        /\ Distinct(NowDirs(t))
        /\ Range(FilePathsOf(NowFiles(t))) \cap Range(NowDirs(t)) = {}

\* C6: attach_file on a path that already exists in its parent replaces the
\* FileNode: afterwards there is exactly one FileNode for the path and it
\* carries the metadata and hashes of this attach.
C6_AttachReplaces ==
    (/\ last.op = "attach"
     /\ FilesAt(last.before[last.tree].files, last.path) # <<>>)
    => FilesAt(NowFiles(last.tree), last.path)
         = <<FileNode(last.path, last.version, last.version)>>

\* a path that is a file of both trees just before the last merge
InBoth(path) ==
    /\ last.op = "merge"
    /\ FilesAt(last.before[last.tree].files, path) # <<>>
    /\ FilesAt(last.before[last.other].files, path) # <<>>

C9_NothingAboveScanRoot ==
    \A t \in TreeIds :
        /\ trees[t].root_path = ScanRoot
        /\ \A i \in DOMAIN NowDirs(t) : IsPrefix(ScanRoot, NowDirs(t)[i])
        /\ \A i \in DOMAIN NowFiles(t) :
               IsPrefix(ScanRoot, NowFiles(t)[i].path)
        /\ trees[t].root # None => heap[trees[t].root].path = ScanRoot

\* C10: merge copies by value: an attach_file on a tree that was merged
\* into a target leaves the files and directories reachable from the
\* target unchanged.
C10_AttachLeavesTargetsAlone ==
    last.op = "attach" =>
        \A t \in TreeIds :
            <<t, last.tree>> \in merged =>
                View(heap, trees[t]) = last.before[t]

\* the pairs (path, node) of a tree's _path_index
IndexPairs(t) ==
    { <<p, trees[t].path_index[p]>> : p \in DOMAIN trees[t].path_index }

\* the pairs (node.path, node) of the DirNodes reachable from a tree's root
ReachablePairs(t) ==
    { <<heap[n].path, n>> : n \in Range(ReachableDirs(heap, trees[t])) }

\* C39: after any sequence of attach_file and merge, the directory index of
\* every tree is exact: _path_index maps a path to a node iff that node is
\* a DirNode reachable from the tree's root with that path.
C39_IndexExact ==
    \A t \in TreeIds : IndexPairs(t) = ReachablePairs(t)

----------------------------------------------------------------------------
(* SpecRoots: attach_file and merge on trees whose files lie under         *)
(* different anchors.  _chain_path makes the first part of the first       *)
(* attached path the root ('/' or 'C:\'), so two trees get different       *)
(* roots when their files are on different drives.                         *)

AnchoredPaths ==
    { <<"/", "r", "f1">>, <<"D:", "g1">>, <<"D:", "s", "g2">> }

NextRoots ==
    \/ \E t \in TreeIds, path \in AnchoredPaths : AttachFile(t, path, 1)
    \/ \E t \in TreeIds, o \in TreeIds : Merge(t, o)

SpecRoots == InitTree /\ [][NextRoots]_vars

\* the last operation merged two non-empty trees with different root paths
RootsDiffer ==
    /\ last.op = "merge"
    /\ last.before[last.tree].dirs # <<>>
    /\ last.before[last.other].dirs # <<>>
    /\ last.before[last.tree].dirs[1] # last.before[last.other].dirs[1]

\* C11: merge(target, source) of two non-empty trees whose root paths
\* differ raises MergeError and leaves the target as it was.
C11_MergeRejectsOtherRoot ==
    RootsDiffer =>
        /\ last.raised = "MergeError"
        /\ View(heap, trees[last.tree]) = last.before[last.tree]

----------------------------------------------------------------------------
(* SpecScan: services/scan.py Scanner.scan with core/processor.py.         *)
(* scan() walks the whole tree into the bounded queue, then builds the     *)
(* ProcessorPool, starts its threads and waits for them.  Every Processor  *)
(* gets the same FilesystemTree and its own lock.  The threads interleave  *)
(* inside attach_file wherever it reads or writes the tree.                *)

\* ProcessorPool.__init__ passes tree=tree to every Processor
SharedTree == 1

ProcessorTree(w) == SharedTree

InitScan ==
    /\ heap = <<>>
    /\ trees = <<NewTree(ScanRoot)>>
    /\ last = [op |-> "init"] /\ merged = {} /\ ops = 0
    /\ file_queue = <<>>
    /\ scan_pc = "walk"
    \* up to one file more than the queue holds
    /\ \E n \in 0..(MAX_QUEUE_SIZE + 1) :
          to_walk = [k \in 1..n |-> Discovered(k)]
    /\ sent = 0
    /\ p_pc = [w \in Workers |-> "new"]
    /\ p_path = [w \in Workers |-> <<>>]
    /\ p_i = [w \in Workers |-> 0]
    /\ p_node = [w \in Workers |-> None]
    /\ p_lock = [w \in Workers |-> FALSE]
    /\ enqueued = {}
    /\ got = [w \in Workers |-> <<>>]
    /\ failed = {}
    /\ stopped = {}
    /\ PoolIdle
    /\ WalkIdle
    /\ DupIdle
    /\ ServiceIdle
    /\ PureIdle

\* Scanner._walk: queue.put(str(path)) blocks while the queue is full
Walk ==
    /\ scan_pc = "walk"
    /\ to_walk # <<>>
    /\ Len(file_queue) < MAX_QUEUE_SIZE
    /\ file_queue' = Append(file_queue, Head(to_walk))
    /\ to_walk' = Tail(to_walk)
    /\ enqueued' = enqueued \cup {Head(to_walk)}
    /\ UNCHANGED <<walkVars, serviceVars, dupVars, pureVars,
                   poolVars,
                   treeVars, scan_pc, sent, p_pc, p_path, p_i, p_node,
                   p_lock, got, failed, stopped>>

\* Scanner.scan after _walk returned: ProcessorPool(...), pool.start()
PoolStart ==
    /\ scan_pc = "walk"
    /\ to_walk = <<>>
    /\ scan_pc' = "wait"
    /\ p_pc' = [w \in Workers |-> "get"]
    /\ UNCHANGED <<walkVars, serviceVars, dupVars, pureVars,
                   poolVars,
                   treeVars, file_queue, to_walk, sent, p_path, p_i,
                   p_node, p_lock, histVars>>

\* ProcessorPool.wait, the loop putting one sentinel per worker
PoolWaitPut ==
    /\ scan_pc = "wait"
    /\ sent < NumWorkers
    /\ Len(file_queue) < MAX_QUEUE_SIZE
    /\ file_queue' = Append(file_queue, Sentinel)
    /\ sent' = sent + 1
    /\ UNCHANGED <<walkVars, serviceVars, dupVars, pureVars,
                   poolVars,
                   treeVars, scan_pc, to_walk, p_pc, p_path, p_i, p_node,
                   p_lock, histVars>>

\* ProcessorPool.wait, thread.join() of every thread, then scan returns
PoolWaitJoin ==
    /\ scan_pc = "wait"
    /\ sent = NumWorkers
    /\ \A w \in Workers : p_pc[w] = "done"
    /\ scan_pc' = "done"
    /\ UNCHANGED <<walkVars, serviceVars, dupVars, pureVars,
                   poolVars,
                   treeVars, file_queue, to_walk, sent, p_pc, p_path, p_i,
                   p_node, p_lock, histVars>>

\* Processor.run: path = self.file_queue.get(); a sentinel ends the loop
ProcGet(w) ==
    /\ p_pc[w] = "get"
    /\ file_queue # <<>>
    /\ file_queue' = Tail(file_queue)
    /\ got' = [got EXCEPT ![w] = Append(@, Head(file_queue))]
    /\ IF Head(file_queue) = Sentinel
       THEN p_pc' = [p_pc EXCEPT ![w] = "done"] /\ UNCHANGED p_path
       ELSE /\ p_pc' = [p_pc EXCEPT ![w] = "process"]
            /\ p_path' = [p_path EXCEPT ![w] = Head(file_queue)]
    /\ UNCHANGED <<walkVars, serviceVars, dupVars, pureVars,
                   poolVars,
                   treeVars, scan_pc, to_walk, sent, p_i, p_node, p_lock,
                   enqueued, failed, stopped>>

\* Processor.run: result = self.process(path); None when it raised
ProcProcess(w) ==
    /\ p_pc[w] = "process"
    /\ \E ok \in BOOLEAN :
          IF ok
          THEN p_pc' = [p_pc EXCEPT ![w] = "lock"] /\ UNCHANGED failed
          ELSE /\ p_pc' = [p_pc EXCEPT ![w] = "get"]
               /\ failed' = failed \cup {p_path[w]}
    /\ UNCHANGED <<walkVars, serviceVars, dupVars, pureVars,
                   poolVars,
                   treeVars, file_queue, scan_pc, to_walk, sent, p_path,
                   p_i, p_node, p_lock, enqueued, got, stopped>>

\* Processor.run: "with self.lock:" acquires this Processor's own lock
ProcLock(w) ==
    /\ p_pc[w] = "lock"
    /\ ~p_lock[w]
    /\ p_lock' = [p_lock EXCEPT ![w] = TRUE]
    /\ p_pc' = [p_pc EXCEPT ![w] = "attach"]
    /\ UNCHANGED <<walkVars, serviceVars, dupVars, pureVars,
                   poolVars,
                   treeVars, file_queue, scan_pc, to_walk, sent, p_path,
                   p_i, p_node, histVars>>

\* attach_file enters _chain_path: the parent is indexed, or the loop
\* over the parent's parts starts
ProcAttach(w) ==
    /\ p_pc[w] = "attach"
    /\ LET idx == trees[ProcessorTree(w)].path_index
           parent_path == Parent(Resolve(p_path[w]))
       IN  IF parent_path \in DOMAIN idx
           THEN /\ p_node' = [p_node EXCEPT ![w] = idx[parent_path]]
                /\ p_pc' = [p_pc EXCEPT ![w] = "append"]
                /\ UNCHANGED p_i
           ELSE /\ p_node' = [p_node EXCEPT ![w] = None]
                /\ p_i' = [p_i EXCEPT ![w] = 1]
                /\ p_pc' = [p_pc EXCEPT ![w] = "chain"]
    /\ UNCHANGED <<walkVars, serviceVars, dupVars, pureVars,
                   poolVars,
                   treeVars, file_queue, scan_pc, to_walk, sent, p_path,
                   p_lock, histVars>>

\* _chain_path, one pass of the loop up to "Create missing directory
\* node": an indexed part becomes current_node, a missing one is stat'ed
ProcChain(w) ==
    /\ p_pc[w] = "chain"
    /\ LET idx == trees[ProcessorTree(w)].path_index
           parts == Parent(Resolve(p_path[w]))
           current_path == Prefix(parts, p_i[w])
       IN  IF p_i[w] > Len(parts)
           THEN p_pc' = [p_pc EXCEPT ![w] = "append"]
                /\ UNCHANGED <<p_i, p_node>>
           ELSE IF current_path \in DOMAIN idx
           THEN /\ p_node' = [p_node EXCEPT ![w] = idx[current_path]]
                /\ p_i' = [p_i EXCEPT ![w] = @ + 1]
                /\ UNCHANGED p_pc
           ELSE p_pc' = [p_pc EXCEPT ![w] = "create"]
                /\ UNCHANGED <<p_i, p_node>>
    /\ UNCHANGED <<walkVars, serviceVars, dupVars, pureVars,
                   poolVars,
                   treeVars, file_queue, scan_pc, to_walk, sent, p_path,
                   p_lock, histVars>>

\* _chain_path, the rest of the pass after Metadata.extract returned:
\* the new DirNode is indexed and linked, or made the root
ProcCreate(w) ==
    /\ p_pc[w] = "create"
    /\ LET t == ProcessorTree(w)
           parts == Parent(Resolve(p_path[w]))
       IN  \E c \in {ChainCreate([heap |-> heap, tree |-> trees[t]],
                                 Prefix(parts, p_i[w]), p_node[w])} :
           /\ heap' = c.heap
           /\ trees' = [trees EXCEPT ![t] = c.tree]
           /\ p_node' = [p_node EXCEPT ![w] = c.node]
    /\ p_i' = [p_i EXCEPT ![w] = @ + 1]
    /\ p_pc' = [p_pc EXCEPT ![w] = "chain"]
    /\ UNCHANGED <<walkVars, serviceVars, dupVars, pureVars,
                   poolVars,
                   last, merged, ops, file_queue, scan_pc, to_walk, sent,
                   p_path, p_lock, histVars>>

\* attach_file: parent.files.append(file_node); then the lock is released
\* and the loop of Processor.run goes round
ProcAppend(w) ==
    /\ p_pc[w] = "append"
    /\ heap' = [heap EXCEPT ![p_node[w]].files =
                   Append(@, FileNode(Resolve(p_path[w]),
                                      FileMetadata(p_path[w]),
                                      [sha256 |-> p_path[w]]))]
    /\ p_lock' = [p_lock EXCEPT ![w] = FALSE]
    /\ p_pc' = [p_pc EXCEPT ![w] = "get"]
    /\ UNCHANGED <<walkVars, serviceVars, dupVars, pureVars,
                   poolVars,
                   trees, last, merged, ops, file_queue, scan_pc, to_walk,
                   sent, p_path, p_i, p_node, histVars>>

NextScan ==
    \/ Walk
    \/ PoolStart
    \/ PoolWaitPut
    \/ PoolWaitJoin
    \/ \E w \in Workers : ProcGet(w)
    \/ \E w \in Workers : ProcProcess(w)
    \/ \E w \in Workers : ProcLock(w)
    \/ \E w \in Workers : ProcAttach(w)
    \/ \E w \in Workers : ProcChain(w)
    \/ \E w \in Workers : ProcCreate(w)
    \/ \E w \in Workers : ProcAppend(w)

SpecScan == InitScan /\ [][NextScan]_vars

\* threads and the main thread are scheduled fairly: a step that stays
\* possible is eventually taken
FairSpecScan == SpecScan /\ WF_vars(NextScan)

----------------------------------------------------------------------------
(* Properties of the threaded pipeline (SpecScan, FairSpecScan) *)

\* C1: a scan of any finite tree terminates and returns its Tree, also
\* when there are more candidate files than the queue holds.
C1_ScanTerminates == <>(scan_pc = "done")

InAttach(w) == p_pc[w] \in {"attach", "chain", "create", "append"}

\* C2: no two workers are ever inside attach_file on the same Tree at the
\* same time.
C2_AttachExclusive ==
    \A w1, w2 \in Workers :
        (w1 # w2 /\ InAttach(w1) /\ InAttach(w2))
            => ProcessorTree(w1) # ProcessorTree(w2)

\* how often item x was dequeued, over all workers
Dequeues(x) ==
    LET n(w) == Cardinality({ i \in DOMAIN got[w] : got[w][i] = x })
        RECURSIVE Sum(_)
        Sum(k) == IF k = 0 THEN 0 ELSE n(k) + Sum(k - 1)
    IN  Sum(NumWorkers)

\* C3: every enqueued path is dequeued by exactly one worker, and once the
\* pool has joined, traverse() yields as many FileNodes as files were
\* discovered and processed without failure.
C3_ScanCountsFiles ==
    scan_pc = "done" =>
        /\ \A f \in enqueued : Dequeues(f) = 1
        /\ TreeLen(heap, trees[SharedTree])
             = Cardinality(enqueued \ failed)

\* what a Processor records of the files whose processing failed: there
\* is no counter, process() returns None and run() goes on to task_done()
ProcessorErrors(w) == 0

\* the positions in worker w's dequeued items of the files that failed
FailedBy(w) == { i \in DOMAIN got[w] : got[w][i] \in failed }

\* C12: a file whose processing fails does not abort the scan: the worker
\* that failed counts the error, nothing is attached for that file, and
\* every other enqueued file is attached by the time the scan returns.
C12_FailureIsolated ==
    scan_pc = "done" =>
        /\ \A w \in Workers : ProcessorErrors(w) = Cardinality(FailedBy(w))
        /\ Range(FilePathsOf(traverse(heap, trees[SharedTree])))
             = enqueued \ failed

----------------------------------------------------------------------------
(* SpecWalk: Scanner.scan on a directory given by the regular files under  *)
(* it, with a Scanner built with some exclude_patterns and max_depth.      *)
(* _walk's traversal is computed first (the order in which it reaches the  *)
(* files); the puts and the ProcessorPool then run as in SpecScan.         *)

\* config.EXCLUDE_PATTERNS, the tokens that occur in DiskFiles
EXCLUDE_PATTERNS == {".git", "build"}

\* the directories scanned: one whose own path holds no exclusion token
\* and one that lies under a directory named build
WalkRoots == { ScanRoot, <<"/", "build", "r">> }

GitConfig == <<".git", "config">>
SrcA == <<"src", "a.py">>
DeepD == <<"a", "b", "c", "d.txt">>

\* candidate regular files under the scan root
DiskFiles(root) == { root \o GitConfig, root \o SrcA, root \o DeepD }

\* Scanner.__init__: exclude_patterns or config.EXCLUDE_PATTERNS;
\* Scanner.scan: root = Path(path).resolve()
Scanner(exclude_patterns, max_depth, path) ==
    [exclude   |-> IF exclude_patterns = {} THEN EXCLUDE_PATTERNS
                   ELSE exclude_patterns,
     max_depth |-> max_depth,
     root      |-> Resolve(path)]

\* Scanner._should_exclude: any(pattern in path.parts ...)
should_exclude(sc, path) ==
    \E pattern \in sc.exclude : pattern \in Range(path)

\* os.scandir(root): the entries of directory root on the disk
scandir(files, root) ==
    { Prefix(f, Len(root) + 1) :
        f \in { g \in files : IsPrefix(root, g) /\ Len(g) > Len(root) } }

\* the first k entries of a listing
RECURSIVE Listed(_, _)
Listed(entries, k) ==
    IF k = 0 \/ entries = {} THEN {}
    ELSE LET e == CHOOSE x \in entries : TRUE
         IN  {e} \cup Listed(entries \ {e}, k - 1)

\* "with os.scandir(root) as entries: for entry in entries" under the
\* outer "except (PermissionError, OSError): pass": the entries the loop
\* gets before the listing raises, all of them when it does not
Yielded(files, root) ==
    IF \E l \in io_errors.listing : l.dir = root
    THEN Listed(scandir(files, root),
                (CHOOSE l \in io_errors.listing : l.dir = root).yields)
    ELSE scandir(files, root)

\* the loop with no inner try: an entry's OSError reaches the outer
\* except and ends the directory's loop
AfterEntryErrorBreaks(rest) == {}

\* the inner "except (PermissionError, OSError): continue": the loop goes
\* on with the entries not yet visited
AfterEntryError(rest) == rest

\* Scanner._walk: the files it puts on the queue, in order.  scandir's
\* order is the system's; CHOOSE fixes one.
RECURSIVE walk(_, _, _, _)
RECURSIVE WalkEntries(_, _, _, _)

\* the loop "for entry in entries" over the entries not yet visited
WalkEntries(files, sc, entries, depth) ==
    IF entries = {} THEN <<>>
    ELSE LET path == CHOOSE e \in entries : TRUE
             here ==
                 IF should_exclude(sc, path) THEN <<>>
                 ELSE IF path \in files THEN <<path>>
                 ELSE IF sc.max_depth = NoMaxDepth \/ depth < sc.max_depth
                 THEN walk(files, sc, path, depth + 1)
                 ELSE <<>>
         IN  IF ~should_exclude(sc, path) /\ path \in io_errors.entry
             THEN WalkEntries(files, sc,
                              AfterEntryError(entries \ {path}), depth)
             ELSE here \o WalkEntries(files, sc, entries \ {path}, depth)

walk(files, sc, root, depth) ==
    WalkEntries(files, sc, Yielded(files, root), depth)

\* the directories _walk is called on, the scan root among them
RECURSIVE Entered(_, _, _, _)
Entered(files, sc, root, depth) ==
    {root} \cup
    UNION { Entered(files, sc, path, depth + 1) :
              path \in { e \in scandir(files, root) :
                           /\ ~should_exclude(sc, e)
                           /\ e \notin files
                           /\ (sc.max_depth = NoMaxDepth
                                 \/ depth < sc.max_depth) } }

InitWalk ==
    /\ heap = <<>>
    /\ last = [op |-> "init"] /\ merged = {} /\ ops = 0
    /\ file_queue = <<>>
    /\ scan_pc = "scan"
    /\ to_walk = <<>>
    /\ sent = 0
    /\ p_pc = [w \in Workers |-> "new"]
    /\ p_path = [w \in Workers |-> <<>>]
    /\ p_i = [w \in Workers |-> 0]
    /\ p_node = [w \in Workers |-> None]
    /\ p_lock = [w \in Workers |-> FALSE]
    /\ enqueued = {}
    /\ got = [w \in Workers |-> <<>>]
    /\ failed = {}
    /\ stopped = {}
    /\ PoolIdle
    /\ \E exclude_patterns \in {{}, {"src"}},
          max_depth \in {NoMaxDepth, 0, 1},
          path \in WalkRoots :
          scanner = Scanner(exclude_patterns, max_depth, path)
    /\ disk \in SUBSET DiskFiles(scanner.root)
    /\ io_errors = NoIoErrors
    /\ trees = <<NewTree(scanner.root)>>
    /\ DupIdle
    /\ ServiceIdle
    /\ PureIdle

\* Scanner.scan: file_count = self._walk(root, queue), the traversal
ScanWalk ==
    /\ scan_pc = "scan"
    /\ to_walk' = walk(disk, scanner, scanner.root, 0)
    /\ scan_pc' = "walk"
    /\ UNCHANGED <<walkVars, serviceVars, dupVars, pureVars,
                   poolVars, treeVars, file_queue, sent, p_pc,
                   p_path, p_i, p_node, p_lock, histVars>>

NextWalk ==
    \/ ScanWalk
    \/ NextScan

SpecWalk == InitWalk /\ [][NextWalk]_vars

----------------------------------------------------------------------------
(* SpecWalkErrors: Scanner.scan on a disk where some entries and some      *)
(* listings raise PermissionError or OSError.                              *)

SrcB == <<"src", "b.py">>

\* candidate regular files: two of them in one directory
ErrorDiskFiles(root) == DiskFiles(root) \cup { root \o SrcB }

\* the failures of a scan: a file's is_file raises, a directory entry
\* raises, a listing is denied (yields nothing) or breaks off after its
\* first entry
IoErrorCases(root) ==
    { [entry |-> {root \o SrcA}, listing |-> {}],
      [entry |-> {root \o <<"a">>}, listing |-> {}],
      [entry |-> {}, listing |-> {[dir |-> root \o <<"src">>, yields |-> 0]}],
      [entry |-> {}, listing |-> {[dir |-> root \o <<"src">>, yields |-> 1]}],
      [entry |-> {}, listing |-> {[dir |-> root, yields |-> 1]}],
      [entry |-> {root \o SrcB},
       listing |-> {[dir |-> root \o <<"a", "b">>, yields |-> 0]}] }

InitWalkErrors ==
    /\ heap = <<>>
    /\ last = [op |-> "init"] /\ merged = {} /\ ops = 0
    /\ file_queue = <<>>
    /\ scan_pc = "scan"
    /\ to_walk = <<>>
    /\ sent = 0
    /\ p_pc = [w \in Workers |-> "new"]
    /\ p_path = [w \in Workers |-> <<>>]
    /\ p_i = [w \in Workers |-> 0]
    /\ p_node = [w \in Workers |-> None]
    /\ p_lock = [w \in Workers |-> FALSE]
    /\ enqueued = {}
    /\ got = [w \in Workers |-> <<>>]
    /\ failed = {}
    /\ stopped = {}
    /\ PoolIdle
    /\ scanner = Scanner({}, NoMaxDepth, ScanRoot)
    /\ disk \in SUBSET ErrorDiskFiles(scanner.root)
    /\ io_errors \in IoErrorCases(scanner.root)
    /\ trees = <<NewTree(scanner.root)>>
    /\ DupIdle
    /\ ServiceIdle
    /\ PureIdle

SpecWalkErrors == InitWalkErrors /\ [][NextWalk]_vars

\* the directories on the way from the scan root to f, the root included
DirsAbove(f) == { Prefix(f, n) : n \in Len(scanner.root)..(Len(f) - 1) }

\* no failure on the way to f: f's own entry does not raise, and neither
\* does the entry or the listing of a directory above it
ReachableFile(f) ==
    /\ f \notin io_errors.entry
    /\ \A d \in DirsAbove(f) :
          /\ d \notin io_errors.entry
          /\ \A l \in io_errors.listing : l.dir # d

----------------------------------------------------------------------------
(* Properties of the walker (SpecWalk) *)

\* some component of path f is an exclusion token
HasExcludedPart(f) == Range(f) \cap scanner.exclude # {}

\* the depth of the directory holding f: 0 for the scan root itself
DepthOf(f) == Len(f) - Len(scanner.root) - 1

\* the files _walk has put or will put on the queue
Emitted == enqueued \cup Range(to_walk)

\* the paths of the FileNodes and of the DirNodes of the scan's Tree
TreeFilePaths == Range(FilePathsOf(NowFiles(SharedTree)))

TreeDirPaths == Range(NowDirs(SharedTree))

\* C15: the walker emits a regular file iff no component of its path is
\* an exclusion token (and the depth cap lets the walker reach it), so no
\* FileNode lies beneath an excluded directory; a scan of a root holding
\* .git/config and src/a.py with the default exclusions returns exactly one
\* FileNode, src/a.py.
C15_ExclusionByComponent ==
    scan_pc # "scan" =>
        /\ Emitted \subseteq disk
        /\ \A f \in disk :
               f \in Emitted <=>
                   /\ ~HasExcludedPart(f)
                   /\ (scanner.max_depth = NoMaxDepth
                         \/ DepthOf(f) <= scanner.max_depth)
        /\ TreeFilePaths \subseteq Emitted
        /\ \A p \in TreeFilePaths : ~HasExcludedPart(p)
        /\ (/\ scan_pc = "done" /\ failed = {}
            /\ disk = {scanner.root \o GitConfig, scanner.root \o SrcA}
            /\ scanner.exclude = EXCLUDE_PATTERNS
            /\ scanner.max_depth # 0)
           => FilePathsOf(NowFiles(SharedTree)) = <<scanner.root \o SrcA>>

\* C16: every directory the walker enters is a DirNode of the returned
\* Tree, also when no file beneath it is emitted: a scan of a/b/c/d.txt
\* with max_depth = 1 returns no FileNode for d.txt and a DirNode for a.
C16_EnteredDirsPresent ==
    (scan_pc = "done" /\ failed = {}) =>
        /\ Entered(disk, scanner, scanner.root, 0) \subseteq TreeDirPaths
        /\ (disk = {scanner.root \o DeepD} /\ scanner.max_depth = 1)
           => /\ scanner.root \o DeepD \notin TreeFilePaths
              /\ scanner.root \o <<"a">> \in TreeDirPaths

\* some component of f below the scan root is an exclusion token
HasExcludedPartBelowRoot(f) ==
    Range(SubSeq(f, Len(scanner.root) + 1, Len(f))) \cap scanner.exclude # {}

\* C36: whatever the scan root's own path is, the walker emits every
\* regular file under it that has no exclusion token among its components
\* below the root (and that the depth cap lets it reach).
C36_ExclusionBelowRoot ==
    scan_pc # "scan" =>
        \A f \in disk :
            (/\ ~HasExcludedPartBelowRoot(f)
             /\ (scanner.max_depth = NoMaxDepth
                   \/ DepthOf(f) <= scanner.max_depth))
            => f \in Emitted

\* C31: an I/O failure at an entry or at a listing is swallowed there:
\* _walk returns, the failing file is skipped, and every other regular
\* file that is not excluded and has no failure on the way to it is
\* emitted.
C31_WalkSwallowsErrors ==
    scan_pc # "scan" =>
        /\ Emitted \subseteq disk \ io_errors.entry
        /\ \A f \in disk :
               (~HasExcludedPart(f) /\ ReachableFile(f)) => f \in Emitted

\* C31: a scan has finished on a disk where an entry or a listing raised,
\* and it enqueued a file next to the failure.
C31_Witness ==
    /\ scan_pc = "done"
    /\ io_errors # NoIoErrors
    /\ \E f \in enqueued, g \in disk \ enqueued :
          ~HasExcludedPart(g) /\ Parent(f) = Parent(g)

----------------------------------------------------------------------------
(* SpecPool: core/worker.py.  The caller (process_with_workers, or         *)
(* DirectoryScanner.scan) starts the pool, adds the tasks, sends the stop  *)
(* signals, waits for the workers and merges their trees.  Workers are     *)
(* asyncio tasks: each builds its own FilesystemTree, and a step runs      *)
(* from one await to the next.                                             *)

\* Worker(worker_id=i, ...) builds self.tree; worker ids are 1..NumWorkers
\* here and 0..num_workers-1 in the source
WorkerTree(w) == w

\* merge_trees: merged = FilesystemTree(root_path=self.root_path)
MergedTree == NumWorkers + 1

\* stop_workers with one stop signal too few
StopSignalsShort == NumWorkers - 1

\* stop_workers: "for _ in range(self.num_workers)"
StopSignals == NumWorkers

\* merge_trees that takes the worker trees last to first
MergeOrderDescending(i) == NumWorkers + 1 - i

\* merge_trees: enumerate(self.worker_trees), gather's results in the
\* order of the workers
MergeOrder(i) == i

InitPool ==
    /\ heap = <<>>
    /\ trees = [t \in 1..(NumWorkers + 1) |-> NewTree(ScanRoot)]
    /\ last = [op |-> "init"] /\ merged = {} /\ ops = 0
    /\ ScanIdle
    /\ task_queue = <<>>
    /\ pool_pc = "start"
    /\ \E n \in 0..MaxFiles : tasks = [k \in 1..n |-> Discovered(k)]
    /\ stop_i = 0
    /\ merge_i = 1
    /\ w_pc = [w \in Workers |-> "new"]
    /\ w_task = [w \in Workers |-> <<>>]
    /\ w_stats = [w \in Workers |-> [files_processed |-> 0, errors |-> 0]]
    \* Worker.__init__: self._running = False
    /\ w_running = [w \in Workers |-> FALSE]
    /\ enqueued = {}
    /\ got = [w \in Workers |-> <<>>]
    /\ failed = {}
    /\ stopped = {}
    /\ WalkIdle
    /\ DupIdle
    /\ ServiceIdle
    /\ PureIdle

\* WorkerPool.start: the workers are created and their tasks scheduled;
\* Worker.run sets self._running = True and reaches its first get()
start ==
    /\ pool_pc = "start"
    /\ w_pc' = [w \in Workers |-> "get"]
    /\ w_running' = [w \in Workers |-> TRUE]
    /\ pool_pc' = IF tasks = <<>> THEN "stop" ELSE "add"
    /\ UNCHANGED <<walkVars, serviceVars, dupVars, pureVars,
                   treeVars, scanVars, task_queue, tasks, stop_i, merge_i,
                   w_task, w_stats, histVars>>

\* WorkerPool.add_task: await self.task_queue.put(task)
add_task ==
    /\ pool_pc = "add"
    /\ Len(task_queue) < max_queue_size
    /\ task_queue' = Append(task_queue, Head(tasks))
    /\ tasks' = Tail(tasks)
    /\ enqueued' = enqueued \cup {Head(tasks)}
    /\ pool_pc' = IF Tail(tasks) = <<>> THEN "stop" ELSE "add"
    /\ UNCHANGED <<walkVars, serviceVars, dupVars, pureVars,
                   treeVars, scanVars, stop_i, merge_i, w_pc, w_task,
                   w_stats, w_running, got, failed, stopped>>

\* WorkerPool.stop_workers: one "await self.task_queue.put(None)"
stop_workers ==
    /\ pool_pc = "stop"
    /\ stop_i < StopSignals
    /\ Len(task_queue) < max_queue_size
    /\ task_queue' = Append(task_queue, Sentinel)
    /\ stop_i' = stop_i + 1
    /\ pool_pc' = IF stop_i + 1 = StopSignals THEN "wait" ELSE "stop"
    /\ UNCHANGED <<walkVars, serviceVars, dupVars, pureVars,
                   treeVars, scanVars, tasks, merge_i, w_pc, w_task,
                   w_stats, w_running, histVars>>

\* WorkerPool.wait_completion: asyncio.gather over the worker tasks
wait_completion ==
    /\ pool_pc = "wait"
    /\ \A w \in Workers : w_pc[w] = "done"
    /\ pool_pc' = "merge"
    /\ UNCHANGED <<walkVars, serviceVars, dupVars, pureVars,
                   treeVars, scanVars, task_queue, tasks, stop_i, merge_i,
                   w_pc, w_task, w_stats, w_running, histVars>>

\* WorkerPool.merge_trees: one "merged.merge(worker_tree)" of the loop
merge_trees ==
    /\ pool_pc = "merge"
    /\ \E o \in {WorkerTree(MergeOrder(merge_i))} :
       \E r \in {merge([heap |-> heap, tree |-> trees[MergedTree]],
                       trees[o])} :
           /\ heap' = r.heap
           /\ trees' = [trees EXCEPT ![MergedTree] = r.tree]
           /\ merged' = merged \cup {<<MergedTree, o>>}
    /\ merge_i' = merge_i + 1
    /\ pool_pc' = IF merge_i = NumWorkers THEN "done" ELSE "merge"
    /\ UNCHANGED <<walkVars, serviceVars, dupVars, pureVars,
                   last, ops, scanVars, task_queue, tasks, stop_i,
                   w_pc, w_task, w_stats, w_running, histVars>>

\* Worker.run: task = await self.task_queue.get(); None ends the loop,
\* and the finally clause clears self._running
WorkerGet(w) ==
    /\ w_pc[w] = "get"
    /\ task_queue # <<>>
    /\ task_queue' = Tail(task_queue)
    /\ got' = [got EXCEPT ![w] = Append(@, Head(task_queue))]
    /\ IF Head(task_queue) = Sentinel
       THEN /\ w_pc' = [w_pc EXCEPT ![w] = "done"]
            /\ w_running' = [w_running EXCEPT ![w] = FALSE]
            /\ UNCHANGED w_task
       ELSE /\ w_pc' = [w_pc EXCEPT ![w] = "process"]
            /\ w_task' = [w_task EXCEPT ![w] = Head(task_queue)]
            /\ UNCHANGED w_running
    /\ UNCHANGED <<walkVars, serviceVars, dupVars, pureVars,
                   treeVars, scanVars, pool_pc, tasks, stop_i, merge_i,
                   w_stats, enqueued, failed, stopped>>

\* Worker.run around Worker._process_task: the file is attached to the
\* worker's tree with empty hashes and counted, or Metadata.extract or
\* the hasher raised and the error is counted
WorkerProcess(w) ==
    /\ w_pc[w] = "process"
    /\ \E ok \in BOOLEAN :
          IF ok
          THEN \E t \in {WorkerTree(w)} :
               \E r \in {attach_file([heap |-> heap, tree |-> trees[t]],
                                      w_task[w], FileMetadata(w_task[w]),
                                      <<>>)} :
                   /\ heap' = r.heap
                   /\ trees' = [trees EXCEPT ![t] = r.tree]
                   /\ w_stats' = [w_stats EXCEPT
                                    ![w].files_processed = @ + 1]
                   /\ UNCHANGED failed
          ELSE /\ w_stats' = [w_stats EXCEPT ![w].errors = @ + 1]
               /\ failed' = failed \cup {w_task[w]}
               /\ UNCHANGED <<heap, trees>>
    \* task_done(), then "await asyncio.sleep(0)"
    /\ w_pc' = [w_pc EXCEPT ![w] = "loop"]
    /\ UNCHANGED <<walkVars, serviceVars, dupVars, pureVars,
                   last, merged, ops, scanVars, task_queue, pool_pc, tasks,
                   stop_i, merge_i, w_task, w_running, enqueued, got,
                   stopped>>

\* Worker.run: "while self._running:" after a task; when the flag is
\* cleared the loop ends and the worker returns its tree
WorkerLoop(w) ==
    /\ w_pc[w] = "loop"
    /\ w_pc' = [w_pc EXCEPT ![w] = IF w_running[w] THEN "get" ELSE "done"]
    /\ UNCHANGED <<walkVars, serviceVars, dupVars, pureVars,
                   treeVars, scanVars, task_queue, pool_pc, tasks, stop_i,
                   merge_i, w_task, w_stats, w_running, histVars>>

NextPool ==
    \/ start
    \/ add_task
    \/ stop_workers
    \/ wait_completion
    \/ merge_trees
    \/ \E w \in Workers : WorkerGet(w)
    \/ \E w \in Workers : WorkerProcess(w)
    \/ \E w \in Workers : WorkerLoop(w)

SpecPool == InitPool /\ [][NextPool]_vars

AllWorkersDone == \A w \in Workers : w_pc[w] = "done"

\* the event loop runs every task that is ready
FairSpecPool == SpecPool /\ WF_vars(NextPool)

----------------------------------------------------------------------------
(* SpecFatal: the worker pool with workers that can fail fatally.  An      *)
(* exception that escapes the per-task try of Worker.run (one raised by    *)
(* the except clause itself, by task_done() or by the queue) reaches the   *)
(* outer "except Exception: ... raise" and ends the worker's task with     *)
(* that exception.                                                         *)

\* Worker.run: the exception leaves the loop, the finally clause clears
\* self._running and the worker's asyncio task ends with the exception
WorkerFatal(w) ==
    /\ w_pc[w] = "process"
    /\ w_pc' = [w_pc EXCEPT ![w] = "raised"]
    /\ w_running' = [w_running EXCEPT ![w] = FALSE]
    /\ failed' = failed \cup {w_task[w]}
    /\ UNCHANGED <<walkVars, serviceVars, dupVars, pureVars,
                   treeVars, scanVars, task_queue, pool_pc, tasks, stop_i,
                   merge_i, w_task, w_stats, enqueued, got, stopped>>

\* WorkerPool.wait_completion: asyncio.gather(*self._worker_tasks) without
\* return_exceptions passes the first exception on to the caller and does
\* nothing to the other tasks
wait_completion_raises ==
    /\ pool_pc = "wait"
    /\ \E w \in Workers : w_pc[w] = "raised"
    /\ pool_pc' = "raised"
    /\ UNCHANGED <<walkVars, serviceVars, dupVars, pureVars,
                   treeVars, scanVars, task_queue, tasks, stop_i, merge_i,
                   w_pc, w_task, w_stats, w_running, histVars>>

NextFatal ==
    \/ NextPool
    \/ \E w \in Workers : WorkerFatal(w)
    \/ wait_completion_raises

SpecFatal == InitPool /\ [][NextFatal]_vars

\* C13: once the pool's join has raised a worker's fatal failure, every
\* other worker has been cancelled: none is running or waiting on the
\* queue.
C13_FatalCancelsWorkers ==
    pool_pc = "raised" =>
        \A w \in Workers : w_pc[w] \in {"done", "raised", "cancelled"}

----------------------------------------------------------------------------
(* SpecCancel: the worker pool during a scan that is cancelled.  The only  *)
(* stop signal of core/worker.py is Worker.stop(); the pool and the        *)
(* scanners have no cancel of their own, so a cancel is stop() on every    *)
(* worker while the caller goes on with its stages.                        *)

\* Worker.stop: self._running = False
stop(w) ==
    /\ pool_pc \in {"add", "stop", "wait"}
    /\ w \notin stopped
    /\ w_running' = [w_running EXCEPT ![w] = FALSE]
    /\ stopped' = stopped \cup {w}
    /\ UNCHANGED <<walkVars, serviceVars, dupVars, pureVars,
                   treeVars, scanVars, task_queue, pool_pc, tasks, stop_i,
                   merge_i, w_pc, w_task, w_stats, enqueued, got, failed>>

NextCancel ==
    \/ NextPool
    \/ \E w \in Workers : stop(w)

SpecCancel == InitPool /\ [][NextCancel]_vars

\* the event loop runs every task that is ready; a cancel may never come
FairSpecCancel == SpecCancel /\ WF_vars(NextPool)

\* every worker has been told to stop
Cancelled == stopped = Workers

\* get_total_stats()['total_files']: the sum of files_processed
RECURSIVE TotalFiles(_)
TotalFiles(k) ==
    IF k = 0 THEN 0 ELSE w_stats[k].files_processed + TotalFiles(k - 1)

\* C14: after the stop signal nothing more is enqueued, every worker
\* eventually terminates and the pool returns; the Tree it returns holds
\* only files that were processed, and as many as were counted.
C14_Cancellation ==
    /\ [][Cancelled => enqueued' = enqueued]_vars
    /\ (Cancelled ~> AllWorkersDone)
    /\ (Cancelled ~> (pool_pc = "done"))
    /\ [](Cancelled /\ pool_pc = "done" =>
            /\ Range(FilePathsOf(traverse(heap, trees[MergedTree])))
                 \subseteq enqueued \ failed
            /\ TreeLen(heap, trees[MergedTree]) = TotalFiles(NumWorkers))

----------------------------------------------------------------------------
(* Properties of the worker pool (SpecPool, FairSpecPool) *)

C4_Safety ==
    \* stop signals are put only after the last task was added, N at most
    /\ stop_i > 0 => tasks = <<>>
    /\ stop_i <= NumWorkers
    \* a worker's stop signal is the last item it dequeues
    /\ \A w \in Workers : \A i \in DOMAIN got[w] :
           got[w][i] = Sentinel => i = Len(got[w])
    /\ \A w \in Workers :
           w_pc[w] = "done"
             <=> (got[w] # <<>> /\ got[w][Len(got[w])] = Sentinel)
    \* once all have stopped, N signals were sent and the queue is empty
    /\ AllWorkersDone => (stop_i = NumWorkers /\ task_queue = <<>>)

\* C4: after the last task, exactly N stop signals are enqueued for N
\* workers; every worker dequeues exactly one, stops after it without
\* dequeuing anything further, so all N workers eventually terminate and
\* the queue is empty once they have.
C4_SentinelShutdown == []C4_Safety /\ <>AllWorkersDone

\* all workers have stopped, each after it processed a task
C4_Witness ==
    /\ AllWorkersDone
    /\ \A w \in Workers : Len(got[w]) > 1

\* what a Tree is, child order aside: its root path and, for every
\* directory, its path, metadata, files and the paths of its subdirectories
TreeValue(h, tree) ==
    [root_path |-> tree.root_path,
     root |-> IF tree.root = None THEN <<>> ELSE h[tree.root].path,
     dirs |-> { [path     |-> h[n].path,
                 metadata |-> h[n].metadata,
                 files    |-> Range(h[n].files),
                 nfiles   |-> Len(h[n].files),
                 subdirs  |-> { h[m].path : m \in Range(h[n].subdirs) },
                 nsubdirs |-> Len(h[n].subdirs)] :
                n \in Range(ReachableDirs(h, tree)) }]

\* the Tree of a single worker that attaches the files of set F in
\* canonical (discovery) order, from file k on
RECURSIVE AttachInOrder(_, _, _)
AttachInOrder(st, k, F) ==
    IF k > MaxFiles THEN st
    ELSE AttachInOrder(
           IF Discovered(k) \in F
           THEN attach_file(st, Discovered(k),
                            FileMetadata(Discovered(k)), <<>>)
           ELSE st,
           k + 1, F)

SingleWorkerTree(F) ==
    AttachInOrder([heap |-> <<>>, tree |-> NewTree(ScanRoot)], 1, F)

\* C8: for any partition of a file set across the workers and any
\* scheduling, merging the partial Trees in ascending worker id yields a
\* Tree equal to the one a single worker builds by attaching the same
\* files in canonical order.
C8_MergeEqualsSingleWorker ==
    pool_pc = "done" =>
        LET single == SingleWorkerTree(enqueued \ failed)
        IN  TreeValue(heap, trees[MergedTree])
              = TreeValue(single.heap, single.tree)

\* merged trees of two workers that both attached files of one directory
C8_Witness ==
    /\ pool_pc = "done"
    /\ \E w1, w2 \in Workers :
          /\ w1 # w2
          /\ \E i \in DOMAIN got[w1], j \in DOMAIN got[w2] :
                /\ got[w1][i] \notin failed \cup {Sentinel}
                /\ got[w2][j] \notin failed \cup {Sentinel}
                /\ Parent(got[w1][i]) = Parent(got[w2][j])

\* _process_task, "Prepare hash dictionary": the hashes computed for a file
\* (hash_result of self.hasher.hash_file(file_path))
prepared_hashes(file_path) ==
    [algorithm |-> "sha256", cryptographic |-> <<"sha256 of", file_path>>]

\* C28: every FileNode of a worker's partial Tree and of the merged Tree
\* carries the hashes computed for its file, the content hash among them.
C28_HashesAttached ==
    \A t \in DOMAIN trees :
        \A i \in DOMAIN traverse(heap, trees[t]) :
            LET file == traverse(heap, trees[t])[i]
            IN  \A k \in DOMAIN prepared_hashes(file.path) :
                    /\ k \in DOMAIN file.hashes
                    /\ file.hashes[k] = prepared_hashes(file.path)[k]

\* merge_trees has begun: wait_completion has returned
MergeBegun == pool_pc \in {"merge", "done"}

\* merged.merge(worker_tree) has been called for the first merge_i - 1
\* workers, in the order of their ids, on a Tree that was new before
MergedInOrder ==
    IF MergeBegun
    THEN /\ AllWorkersDone
         /\ merged = { <<MergedTree, WorkerTree(w)>> : w \in 1..(merge_i - 1) }
    ELSE /\ merged = {}
         /\ trees[MergedTree] = NewTree(ScanRoot)

\* no step of Worker.run: no task taken, none processed, no loop test
NoWorkerStep == w_pc' = w_pc /\ w_stats' = w_stats /\ got' = got

\* C30: merge_trees starts only after every worker has terminated, the
\* partial Trees are merged in ascending worker id into a Tree that was
\* empty, and no worker takes a task or attaches to its partial Tree once
\* the merge has begun.
C30_MergeAfterWorkers ==
    []MergedInOrder /\ [][MergeBegun => NoWorkerStep]_vars

\* C30: the merge has finished and folded in the partial Trees of at least
\* two workers that each attached a file.
C30_Witness ==
    /\ pool_pc = "done"
    /\ merge_i = NumWorkers + 1
    /\ \E w1, w2 \in Workers :
          /\ w1 # w2
          /\ w_stats[w1].files_processed > 0
          /\ w_stats[w2].files_processed > 0

----------------------------------------------------------------------------
(* SpecDup: services/duplicate.py. One DuplicateDetector; FileNodes are    *)
(* added one by one, and detect_exact_duplicates and                        *)
(* detect_near_duplicates are called at any time in between. A dict is a    *)
(* sequence of [k, v] items in insertion order, a str a sequence of         *)
(* characters.                                                              *)

MaxAdds == 4         \* FileNodes added to the detector, at most

\* sha256[:16] of a 64 character digest, scaled to 1 of 2
IdLen == 1

\* threshold arguments of detect_near_duplicates
Thresholds == {0, 1}

Digits == <<"0", "1", "2", "3", "4", "5", "6", "7", "8", "9">>

\* str(n) of a non-negative int
RECURSIVE str(_)
str(n) ==
    IF n < 10 THEN <<Digits[n + 1]>>
              ELSE str(n \div 10) \o <<Digits[(n % 10) + 1]>>

\* int(s) of a decimal string
RECURSIVE int(_)
int(s) ==
    LET d == (CHOOSE i \in DOMAIN Digits : Digits[i] = s[Len(s)]) - 1
    IN  IF Len(s) = 1 THEN d
                      ELSE 10 * int(SubSeq(s, 1, Len(s) - 1)) + d

\* hamming_distance(hash1, hash2): bin(hash1 ^ hash2).count('1')
RECURSIVE hamming_distance(_, _)
hamming_distance(hash1, hash2) ==
    IF hash1 = 0 /\ hash2 = 0
    THEN 0
    ELSE (IF hash1 % 2 # hash2 % 2 THEN 1 ELSE 0)
           + hamming_distance(hash1 \div 2, hash2 \div 2)

\* Metadata of a processed file: it has times, and no attribute time
DupMetadata(path, size, modified) ==
    [path |-> path, size |-> size, times |-> [MODIFIED |-> modified]]

\* a processed FileNode; hashes holds sha256 and phash where computed,
\* the phash as Processor stores it: str(phash)
DupFile(name, size, modified, hashes) ==
    FileNode(<<"/", "r", name>>,
             DupMetadata(<<"/", "r", name>>, size, modified), hashes)

\* the FileNodes the detector is given: two pairs of equal content, whose
\* digests share their first characters, images one bit apart, two images
\* of one perceptual hash and one modification time, a file that has no
\* sha256 and one without phash
DupFiles ==
    { DupFile("d1", 1, 1, [sha256 |-> <<"a", "1">>, phash |-> str(0)]),
      DupFile("d2", 2, 2, [sha256 |-> <<"a", "1">>, phash |-> str(1)]),
      DupFile("d3", 3, 3, [sha256 |-> <<"a", "2">>, phash |-> str(3)]),
      DupFile("d4", 4, 3, [sha256 |-> <<"a", "2">>, phash |-> str(3)]),
      DupFile("d5", 5, 5, [phash |-> str(12)]),
      DupFile("d6", 6, 6, [sha256 |-> <<"b", "1">>]) }

\* dict: key in d
DictHas(d, k) == \E i \in DOMAIN d : d[i].k = k

\* dict: d[k]
DictGet(d, k) == d[CHOOSE i \in DOMAIN d : d[i].k = k].v

\* dict: d[k] = v (a key that is present keeps its position)
DictSet(d, k, v) ==
    IF DictHas(d, k)
    THEN [i \in DOMAIN d |-> IF d[i].k = k THEN [k |-> k, v |-> v] ELSE d[i]]
    ELSE Append(d, [k |-> k, v |-> v])

\* list(d.keys())
DictKeys(d) == [i \in DOMAIN d |-> d[i].k]

\* defaultdict(list): index[k].append(file_node)
IndexAppend(index, k, file_node) ==
    DictSet(index, k,
            Append(IF DictHas(index, k) THEN DictGet(index, k) ELSE <<>>,
                   file_node))

\* file_node.hashes.get(key) is truthy
HasHash(file_node, key) ==
    /\ key \in DOMAIN file_node.hashes
    /\ file_node.hashes[key] # <<>>

\* DuplicateGroup(group_id=..., duplicate_type=...)
DuplicateGroup(group_id, duplicate_type) ==
    [group_id |-> group_id, files |-> <<>>,
     duplicate_type |-> duplicate_type, total_size |-> 0, wastage |-> 0,
     representative |-> None]

MinOf(S) == CHOOSE m \in S : \A n \in S : m <= n

\* an add_file whose wastage is all but the member just added
group_add_file_but_last(g, file_node) ==
    [g EXCEPT
       !.files = Append(g.files, file_node),
       !.total_size = g.total_size + file_node.metadata.size,
       !.wastage = g.total_size]

\* DuplicateGroup.add_file(file_node)
group_add_file(g, file_node) ==
    LET files == Append(g.files, file_node)
        total_size == g.total_size + file_node.metadata.size
    IN  [g EXCEPT
           !.files = files,
           !.total_size = total_size,
           !.wastage = IF Len(files) > 1
                       THEN total_size
                              - MinOf({ files[i].metadata.size :
                                          i \in DOMAIN files })
                       ELSE @]

\* for file_node in files: group.add_file(file_node)
RECURSIVE group_add_files(_, _)
group_add_files(group, files) ==
    IF files = <<>>
    THEN group
    ELSE group_add_files(group_add_file(group, Head(files)), Tail(files))

\* max(files, key=lambda f: f.metadata.time.get('MODIFIED', '')), the
\* first of the members with the greatest key
MaxByModified(files) ==
    files[CHOOSE i \in DOMAIN files :
            /\ \A j \in DOMAIN files :
                  files[j].metadata.time.MODIFIED
                    <= files[i].metadata.time.MODIFIED
            /\ \A j \in 1..(i - 1) :
                  files[j].metadata.time.MODIFIED
                    < files[i].metadata.time.MODIFIED]

\* DuplicateGroup.set_representative(): the group after it, and what it
\* raised. The key reads f.metadata.time of each member.
set_representative(group) ==
    IF group.files = <<>>
    THEN [group |-> group, raised |-> "nothing"]
    ELSE IF \E i \in DOMAIN group.files :
               "time" \notin DOMAIN group.files[i].metadata
         THEN [group |-> group, raised |-> "AttributeError"]
         ELSE [group |-> [group EXCEPT
                            !.representative = MaxByModified(group.files)],
               raised |-> "nothing"]

\* DuplicateDetector.detect_exact_duplicates, the loop from item i on:
\* exact_duplicates when the loop ends or a statement raises
RECURSIVE ExactLoop(_, _, _)
ExactLoop(index, i, out) ==
    IF i > Len(index)
    THEN [groups |-> out, raised |-> "nothing"]
    ELSE LET sha256 == index[i].k
             files == index[i].v
         IN  IF Len(files) > 1
             THEN LET group ==
                        group_add_files(
                          DuplicateGroup(
                            <<"exact_">>
                              \o SubSeq(sha256, 1,
                                        IF Len(sha256) < IdLen
                                        THEN Len(sha256) ELSE IdLen),
                            "exact"),
                          files)
                      r == set_representative(group)
                  IN  IF r.raised # "nothing"
                      THEN [groups |-> out, raised |-> r.raised]
                      ELSE ExactLoop(index, i + 1,
                                     DictSet(out, group.group_id, r.group))
             ELSE ExactLoop(index, i + 1, out)

\* for phash in similar: for file_node in self._phash_index[phash]
RECURSIVE FilesOf(_, _)
FilesOf(index, similar) ==
    IF similar = <<>>
    THEN <<>>
    ELSE DictGet(index, Head(similar)) \o FilesOf(index, Tail(similar))

\* a group for every hash that has at least 2 files
EmitsGroupByFiles(index, similar) == Len(FilesOf(index, similar)) > 1

\* if len(similar) > 1
EmitsGroup(index, similar) == Len(similar) > 1

\* DuplicateDetector.detect_near_duplicates, the outer loop from phashes[i]
\* on: near_duplicates when the loop ends or a statement raises
RECURSIVE NearLoop(_, _, _, _, _, _, _)
NearLoop(index, phashes, threshold, i, visited, group_counter, out) ==
    IF i > Len(phashes)
    THEN [groups |-> out, raised |-> "nothing"]
    ELSE
      LET phash1 == phashes[i]
          similar ==
              <<phash1>>
                \o SelectSeq(SubSeq(phashes, i + 1, Len(phashes)),
                             LAMBDA phash2 :
                               /\ phash2 \notin visited
                               /\ hamming_distance(phash1, phash2)
                                    <= threshold)
      IN  IF phash1 \in visited
          THEN NearLoop(index, phashes, threshold, i + 1, visited,
                        group_counter, out)
          ELSE IF EmitsGroup(index, similar)
          THEN LET group ==
                     group_add_files(
                       DuplicateGroup(<<"near_">> \o str(group_counter),
                                      "near"),
                       FilesOf(index, similar))
                   r == set_representative(group)
               IN  IF r.raised # "nothing"
                   THEN [groups |-> out, raised |-> r.raised]
                   ELSE NearLoop(index, phashes, threshold, i + 1,
                                 visited \cup Range(similar),
                                 group_counter + 1,
                                 DictSet(out, group.group_id, r.group))
          ELSE NearLoop(index, phashes, threshold, i + 1, visited,
                        group_counter, out)

\* add_file: index by SHA-256
IndexSha256(index, file_node) ==
    IF HasHash(file_node, "sha256")
    THEN IndexAppend(index, file_node.hashes.sha256, file_node)
    ELSE index

\* add_file: index by phash
IndexPhash(index, file_node) ==
    IF HasHash(file_node, "phash")
    THEN IndexAppend(index, int(file_node.hashes.phash), file_node)
    ELSE index

\* DuplicateDetector()
InitDup ==
    /\ heap = <<>> /\ trees = <<>>
    /\ last = [op |-> "init"] /\ merged = {} /\ ops = 0
    /\ ScanIdle
    /\ PoolIdle
    /\ WalkIdle
    /\ enqueued = {} /\ got = <<>> /\ failed = {} /\ stopped = {}
    /\ sha256_index = <<>>
    /\ phash_index = <<>>
    /\ exact_duplicates = <<>>
    /\ near_duplicates = <<>>
    /\ dup_last = [op |-> "new"]
    /\ added = <<>>
    /\ dup_group = <<>>
    /\ PureIdle
    /\ ServiceIdle

\* DuplicateDetector.add_file(file_node)
add_file(file_node) ==
    /\ dup_last.op # "off"
    /\ Len(added) < MaxAdds
    /\ file_node \notin Range(added)
    /\ sha256_index' = IndexSha256(sha256_index, file_node)
    /\ phash_index' = IndexPhash(phash_index, file_node)
    /\ added' = Append(added, file_node)
    /\ dup_last' = [op |-> "add", raised |-> "nothing"]
    /\ UNCHANGED <<treeVars, scanVars, poolVars, histVars, walkVars, serviceVars,
                   pureVars,
                   exact_duplicates, near_duplicates, dup_group>>

\* DuplicateDetector.detect_exact_duplicates()
detect_exact_duplicates ==
    /\ dup_last.op # "off"
    /\ \E r \in {ExactLoop(sha256_index, 1, <<>>)} :
          /\ exact_duplicates' = r.groups
          /\ dup_last' = [op |-> "exact", raised |-> r.raised]
    /\ UNCHANGED <<treeVars, scanVars, poolVars, histVars, walkVars, serviceVars,
                   pureVars,
                   sha256_index, phash_index, near_duplicates, added,
                   dup_group>>

\* DuplicateDetector.detect_near_duplicates(threshold)
detect_near_duplicates(threshold) ==
    /\ dup_last.op # "off"
    /\ \E r \in {NearLoop(phash_index, DictKeys(phash_index), threshold,
                          1, {}, 0, <<>>)} :
          /\ near_duplicates' = r.groups
          /\ dup_last' = [op |-> "near", raised |-> r.raised,
                          threshold |-> threshold,
                          phashes |-> DictKeys(phash_index)]
    /\ UNCHANGED <<treeVars, scanVars, poolVars, histVars, walkVars, serviceVars,
                   pureVars,
                   sha256_index, phash_index, exact_duplicates, added,
                   dup_group>>

NextDup ==
    \/ \E file_node \in DupFiles : add_file(file_node)
    \/ detect_exact_duplicates
    \/ \E threshold \in Thresholds : detect_near_duplicates(threshold)

SpecDup == InitDup /\ [][NextDup]_vars

----------------------------------------------------------------------------
(* Properties of SpecDup *)

\* the items of a dict of groups that hold file_node
GroupsOf(groups, file_node) ==
    { i \in DOMAIN groups : file_node \in Range(groups[i].v.files) }

\* two files are members of one group of the dict
SameGroup(groups, f, g) == GroupsOf(groups, f) \cap GroupsOf(groups, g) # {}

\* C17: after detect_exact_duplicates, two indexed files are members of the
\* same EXACT group iff they have the same content hash; every group has at
\* least 2 members, every file is in at most one EXACT group, and a file
\* without a content hash is in none.
C17_ExactGroups ==
    dup_last.op = "exact" =>
        /\ \A f, g \in Range(added) :
              f # g =>
                 (SameGroup(exact_duplicates, f, g)
                    <=> /\ HasHash(f, "sha256")
                        /\ HasHash(g, "sha256")
                        /\ f.hashes.sha256 = g.hashes.sha256)
        /\ \A i \in DOMAIN exact_duplicates :
              /\ exact_duplicates[i].v.duplicate_type = "exact"
              /\ Len(exact_duplicates[i].v.files) >= 2
        /\ \A f \in Range(added) :
              /\ Cardinality(GroupsOf(exact_duplicates, f)) <= 1
              /\ ~HasHash(f, "sha256")
                    => GroupsOf(exact_duplicates, f) = {}

\* the later unvisited hashes within the threshold of the seed order[i]
Neighbours(order, threshold, i, visited) ==
    SelectSeq(SubSeq(order, i + 1, Len(order)),
              LAMBDA q : /\ q \notin visited
                         /\ hamming_distance(order[i], q) <= threshold)

\* the clusters of at least 2 hashes that the greedy seed pass over the
\* hashes in the given order emits, in emission order
RECURSIVE SeedPass(_, _, _, _)
SeedPass(order, threshold, i, visited) ==
    IF i > Len(order)
    THEN <<>>
    ELSE IF order[i] \in visited
    THEN SeedPass(order, threshold, i + 1, visited)
    ELSE LET cluster ==
                 <<order[i]>> \o Neighbours(order, threshold, i, visited)
             rest == SeedPass(order, threshold, i + 1,
                              visited \cup Range(cluster))
         IN  IF Len(cluster) >= 2 THEN <<cluster>> \o rest ELSE rest

\* the perceptual hashes of a group's members
HashesOf(group) ==
    { int(group.files[i].hashes.phash) : i \in DOMAIN group.files }

\* C18: detect_near_duplicates is the greedy seed pass over the hashes it
\* processes: the n-th emitted group has id near_(n-1) and holds the files
\* of the n-th cluster (a seed and every later unvisited hash within the
\* threshold), a cluster has at least 2 hashes, and every hash and every
\* file is in at most one group.
C18_GreedySeedPass ==
    dup_last.op = "near" =>
        LET clusters ==
                SeedPass(dup_last.phashes, dup_last.threshold, 1, {})
        IN  /\ Len(near_duplicates) = Len(clusters)
            /\ \A n \in DOMAIN near_duplicates :
                  /\ near_duplicates[n].k = <<"near_">> \o str(n - 1)
                  /\ near_duplicates[n].v.group_id = near_duplicates[n].k
                  /\ near_duplicates[n].v.duplicate_type = "near"
                  /\ near_duplicates[n].v.files
                       = FilesOf(phash_index, clusters[n])
                  /\ Cardinality(HashesOf(near_duplicates[n].v)) >= 2
            /\ \A m, n \in DOMAIN near_duplicates :
                  m # n => HashesOf(near_duplicates[m].v)
                             \cap HashesOf(near_duplicates[n].v) = {}
            /\ \A f \in Range(added) :
                  Cardinality(GroupsOf(near_duplicates, f)) <= 1

\* _phash_index after add_file of the files in the given order
RECURSIVE PhashIndexOf(_)
PhashIndexOf(files) ==
    IF files = <<>>
    THEN <<>>
    ELSE IndexPhash(PhashIndexOf(SubSeq(files, 1, Len(files) - 1)),
                    files[Len(files)])

\* the orders in which the files of a sequence can be added
OrdersOf(files) ==
    { o \in [DOMAIN files -> Range(files)] : Range(o) = Range(files) }

\* membership and id of each group of a dict of groups
Membership(groups) ==
    { [group_id |-> groups[i].k, files |-> Range(groups[i].v.files)] :
        i \in DOMAIN groups }

\* what detect_near_duplicates(threshold) emits after the files were added
\* in the given order
NearGroupsOf(files, threshold) ==
    LET index == PhashIndexOf(files)
    IN  Membership(NearLoop(index, DictKeys(index), threshold,
                            1, {}, 0, <<>>).groups)

\* C19: detect_near_duplicates processes the distinct perceptual hashes in
\* ascending numeric order, and the NEAR groups it emits (membership and
\* ids) are the same for every order in which the same files were added.
C19_OrderIndependent ==
    dup_last.op = "near" =>
        /\ \A i, j \in DOMAIN dup_last.phashes :
              i < j => dup_last.phashes[i] < dup_last.phashes[j]
        /\ \A o \in OrdersOf(added) :
              NearGroupsOf(o, dup_last.threshold)
                = Membership(near_duplicates)

\* two different added files that both have a perceptual hash
ImagePairs ==
    { pair \in Range(added) \X Range(added) :
        /\ pair[1] # pair[2]
        /\ HasHash(pair[1], "phash")
        /\ HasHash(pair[2], "phash") }

\* C20 as stated: after detect_near_duplicates(0), two files are in the
\* same NEAR group iff their perceptual hashes are equal, so files sharing
\* one perceptual hash form a NEAR group.
C20_EqualHashesGrouped ==
    (dup_last.op = "near" /\ dup_last.threshold = 0) =>
        \A pair \in ImagePairs :
            SameGroup(near_duplicates, pair[1], pair[2])
              <=> int(pair[1].hashes.phash) = int(pair[2].hashes.phash)

\* C20, amended: detect_near_duplicates(0) returns without raising and
\* emits no NEAR group: different hashes never cluster, and the files of
\* one perceptual hash are a cluster of 1 hash, for which no group is
\* emitted.
C20_ThresholdZeroNoGroup ==
    (dup_last.op = "near" /\ dup_last.threshold = 0) =>
        /\ dup_last.raised = "nothing"
        /\ near_duplicates = <<>>
        /\ \A pair \in ImagePairs :
              ~SameGroup(near_duplicates, pair[1], pair[2])

\* detect_near_duplicates(0) has run on two files of one perceptual hash
\* and two files whose hashes differ in one bit
C20_Witness ==
    /\ dup_last.op = "near"
    /\ dup_last.threshold = 0
    /\ \E pair \in ImagePairs :
          int(pair[1].hashes.phash) = int(pair[2].hashes.phash)
    /\ \E pair \in ImagePairs :
          hamming_distance(int(pair[1].hashes.phash),
                           int(pair[2].hashes.phash)) = 1

----------------------------------------------------------------------------
(* SpecGroup: one DuplicateGroup, as the detector's loops build it:         *)
(* constructed empty, then add_file for each member, and                    *)
(* set_representative at any time.                                          *)

MaxMembers == 3      \* members added to the group, at most

\* DuplicateGroup(group_id=..., duplicate_type=...)
InitGroup ==
    /\ heap = <<>> /\ trees = <<>>
    /\ last = [op |-> "init"] /\ merged = {} /\ ops = 0
    /\ ScanIdle
    /\ PoolIdle
    /\ WalkIdle
    /\ enqueued = {} /\ got = <<>> /\ failed = {} /\ stopped = {}
    /\ sha256_index = <<>> /\ phash_index = <<>>
    /\ exact_duplicates = <<>> /\ near_duplicates = <<>>
    /\ added = <<>>
    /\ PureIdle
    /\ ServiceIdle
    /\ dup_last = [op |-> "new"]
    /\ \E duplicate_type \in {"exact", "near"} :
          dup_group = DuplicateGroup(<<"g">>, duplicate_type)

\* group.add_file(file_node)
GroupAddFile(file_node) ==
    /\ dup_group # <<>>
    /\ Len(dup_group.files) < MaxMembers
    /\ dup_group' = group_add_file(dup_group, file_node)
    /\ dup_last' = [op |-> "add_file", raised |-> "nothing"]
    /\ UNCHANGED <<treeVars, scanVars, poolVars, histVars, walkVars, serviceVars,
                   pureVars,
                   sha256_index, phash_index, exact_duplicates,
                   near_duplicates, added>>

\* group.set_representative()
GroupSetRepresentative ==
    /\ dup_group # <<>>
    /\ \E r \in {set_representative(dup_group)} :
          /\ dup_group' = r.group
          /\ dup_last' = [op |-> "set_representative", raised |-> r.raised]
    /\ UNCHANGED <<treeVars, scanVars, poolVars, histVars, walkVars, serviceVars,
                   pureVars,
                   sha256_index, phash_index, exact_duplicates,
                   near_duplicates, added>>

NextGroup ==
    \/ \E file_node \in DupFiles : GroupAddFile(file_node)
    \/ GroupSetRepresentative

SpecGroup == InitGroup /\ [][NextGroup]_vars

\* sum(f.size for f in files)
RECURSIVE SumOfSizes(_)
SumOfSizes(files) ==
    IF files = <<>> THEN 0
                    ELSE Head(files).metadata.size + SumOfSizes(Tail(files))

\* C21: after every add_file of a group, total_size is the sum of its
\* members' sizes and wastage is total_size minus the smallest member size.
C21_Aggregates ==
    (dup_group # <<>> /\ dup_group.files # <<>>) =>
        /\ dup_group.total_size = SumOfSizes(dup_group.files)
        /\ dup_group.wastage
             = dup_group.total_size
                 - MinOf({ dup_group.files[i].metadata.size :
                             i \in DOMAIN dup_group.files })

\* add_file has just added a member larger than an earlier one
C21_Witness ==
    /\ dup_group # <<>>
    /\ dup_last.op = "add_file"
    /\ Len(dup_group.files) >= 2
    /\ dup_group.files[Len(dup_group.files)].metadata.size
         > dup_group.files[1].metadata.size

\* the file names of DupFiles in lexicographic order
DupNames == <<"d1", "d2", "d3", "d4", "d5", "d6">>

\* str(f.path) < str(g.path) for two of the DupFiles
PathBefore(f, g) ==
    \E i, j \in DOMAIN DupNames :
        /\ i < j
        /\ f.path[Len(f.path)] = DupNames[i]
        /\ g.path[Len(g.path)] = DupNames[j]

\* C22: after set_representative of a group with members, representative
\* is a most recently modified member, and of the members tied on that
\* modification time it is the one with the smallest path.
C22_Representative ==
    (dup_group # <<>> /\ dup_last.op = "set_representative"
       /\ dup_group.files # <<>>) =>
        /\ dup_last.raised = "nothing"
        /\ \E i \in DOMAIN dup_group.files :
              dup_group.representative = dup_group.files[i]
        /\ \A i \in DOMAIN dup_group.files :
              LET f == dup_group.files[i]
                  r == dup_group.representative
              IN  /\ f.metadata.times.MODIFIED <= r.metadata.times.MODIFIED
                  /\ f.metadata.times.MODIFIED = r.metadata.times.MODIFIED
                        => ~PathBefore(f, r)

----------------------------------------------------------------------------
(* SpecDiff: services/snapshot.py, SnapshotManager.diff(snap_a, snap_b) on  *)
(* two snapshots whose files have distinct paths. A str is a TLA+ string;   *)
(* the loops over sets of paths run in an order the caller cannot choose.   *)

MaxSnapFiles == 3    \* files of both snapshots together, at most

\* None of an Optional field
PyNone == "None"

\* if v: of an Optional[str]
Truthy(v) == v # PyNone /\ v # ""

\* SnapshotFile(path, size, sha256, mtime)
SnapshotFile(path, size, sha256, mtime) ==
    [path |-> path, size |-> size, sha256 |-> sha256, mtime |-> mtime]

\* the paths of snapshot files, in lexicographic order
SnapPaths == <<"a", "b", "c">>

\* path1 < path2 of two of the SnapPaths
PathLess(path1, path2) ==
    \E i, j \in DOMAIN SnapPaths :
        i < j /\ SnapPaths[i] = path1 /\ SnapPaths[j] = path2

\* (size, sha256, mtime) of a file at snapshot time: a first state, and
\* states that differ from it in size, in content, in mtime, or that lack
\* the hash or the mtime
SnapStates ==
    { <<1, "h1", "t1">>, <<2, "h1", "t1">>, <<1, "h2", "t1">>,
      <<1, "h1", "t2">>, <<1, PyNone, "t1">>, <<1, "h1", PyNone>> }

SnapFiles ==
    { SnapshotFile(SnapPaths[i], st[1], st[2], st[3]) :
        i \in DOMAIN SnapPaths, st \in SnapStates }

\* Snapshot.files: the lists of n files with distinct paths
RECURSIVE FileLists(_)
FileLists(n) ==
    IF n = 0
    THEN { <<>> }
    ELSE UNION { { Append(fs, f) :
                     f \in { g \in SnapFiles :
                               \A i \in DOMAIN fs : fs[i].path # g.path } } :
                 fs \in FileLists(n - 1) }

\* set(map): the paths of a snapshot's files
PathsOf(files) == { files[i].path : i \in DOMAIN files }

\* map[path] of {f.path: f for f in files}
FileAt(files, path) ==
    files[CHOOSE i \in DOMAIN files :
            /\ files[i].path = path
            /\ \A j \in DOMAIN files : files[j].path = path => j <= i]

\* the orders in which a for loop can run over a set
LoopOrders(S) == { o \in [1..Cardinality(S) -> S] : Range(o) = S }

\* sha_to_b.get(sha256, []): the paths of b's files with that hash, in the
\* order of snap_b.files
sha_to_b(snap_b, sha256) ==
    LET with == SelectSeq(snap_b, LAMBDA f : Truthy(f.sha256)
                                               /\ f.sha256 = sha256)
    IN  [i \in DOMAIN with |-> with[i].path]

\* DiffEntry(change, path, old_path, old_size, new_size, size_delta)
DiffEntry(change, path, old_path, old_size, new_size, size_delta) ==
    [change |-> change, path |-> path, old_path |-> old_path,
     old_size |-> old_size, new_size |-> new_size,
     size_delta |-> size_delta]

\* diff: the loop "Removed or renamed" from order[i] on
RECURSIVE RemovedOrRenamed(_, _, _, _, _)
RemovedOrRenamed(snap_a, snap_b, order, i, acc) ==
    IF i > Len(order)
    THEN acc
    ELSE
      LET path == order[i]
          fa == FileAt(snap_a, path)
          new_paths == SelectSeq(sha_to_b(snap_b, fa.sha256),
                                 LAMBDA p : p \notin PathsOf(snap_a))
          new_path == new_paths[1]
          fb == FileAt(snap_b, new_path)
      IN  IF Truthy(fa.sha256) /\ sha_to_b(snap_b, fa.sha256) # <<>>
             /\ new_paths # <<>>
          THEN RemovedOrRenamed(snap_a, snap_b, order, i + 1,
                 [acc EXCEPT
                    !.matched_new_paths = @ \cup {new_path},
                    !.renamed =
                       Append(@, DiffEntry("renamed", new_path, path,
                                           fa.size, fb.size,
                                           fb.size - fa.size))])
          ELSE RemovedOrRenamed(snap_a, snap_b, order, i + 1,
                 [acc EXCEPT
                    !.removed =
                       Append(@, DiffEntry("removed", path, PyNone,
                                           fa.size, PyNone, PyNone))])

\* diff: the loop "Added"
Added(snap_b, order, matched_new_paths) ==
    LET rest == SelectSeq(order, LAMBDA p : p \notin matched_new_paths)
    IN  [i \in DOMAIN rest |->
           DiffEntry("added", rest[i], PyNone, PyNone,
                     FileAt(snap_b, rest[i]).size,
                     FileAt(snap_b, rest[i]).size)]

\* a comparison that takes a record without a hash for changed content
ChangedUnlessSameHash(fa, fb) ==
    ~(Truthy(fa.sha256) /\ Truthy(fb.sha256) /\ fa.sha256 = fb.sha256)

\* diff: changed, for the two records of one path
Changed(fa, fb) ==
    IF Truthy(fa.sha256) /\ Truthy(fb.sha256) /\ fa.sha256 # fb.sha256
    THEN TRUE
    ELSE IF fa.size # fb.size
    THEN TRUE
    ELSE Truthy(fa.mtime) /\ Truthy(fb.mtime) /\ fa.mtime # fb.mtime

\* diff: the loop "Modified"
Modified(snap_a, snap_b, order) ==
    LET changed == SelectSeq(order,
                     LAMBDA p : Changed(FileAt(snap_a, p), FileAt(snap_b, p)))
    IN  [i \in DOMAIN changed |->
           DiffEntry("modified", changed[i], PyNone,
                     FileAt(snap_a, changed[i]).size,
                     FileAt(snap_b, changed[i]).size,
                     FileAt(snap_b, changed[i]).size
                       - FileAt(snap_a, changed[i]).size)]

\* SnapshotManager.diff(snap_a, snap_b), its three loops running over
\* their sets in the given orders
diff(snap_a, snap_b, order_a, order_b, order_ab) ==
    LET first == RemovedOrRenamed(snap_a, snap_b, order_a, 1,
                   [matched_new_paths |-> {}, renamed |-> <<>>,
                    removed |-> <<>>])
    IN  [added |-> Added(snap_b, order_b, first.matched_new_paths),
         removed |-> first.removed,
         modified |-> Modified(snap_a, snap_b, order_ab),
         renamed |-> first.renamed]

\* two snapshots, as Snapshot.files, before diff is called
InitDiff ==
    /\ heap = <<>> /\ trees = <<>>
    /\ last = [op |-> "init"] /\ merged = {} /\ ops = 0
    /\ ScanIdle
    /\ PoolIdle
    /\ WalkIdle
    /\ DupIdle
    /\ ServiceIdle
    /\ enqueued = {} /\ got = <<>> /\ failed = {} /\ stopped = {}
    /\ \E na \in 0..MaxSnapFiles :
          \E nb \in 0..(MaxSnapFiles - na) :
             \E a \in FileLists(na), b \in FileLists(nb) :
                args = [op |-> "diff", snap_a |-> a, snap_b |-> b]
    /\ result = <<>>

\* SnapshotManager.diff(args.snap_a, args.snap_b)
Diff ==
    /\ args # <<>> /\ args.op = "diff"
    /\ result = <<>>
    /\ \E order_a \in LoopOrders(PathsOf(args.snap_a) \ PathsOf(args.snap_b)),
          order_b \in LoopOrders(PathsOf(args.snap_b) \ PathsOf(args.snap_a)),
          order_ab \in LoopOrders(PathsOf(args.snap_a)
                                    \cap PathsOf(args.snap_b)) :
          result' = diff(args.snap_a, args.snap_b,
                         order_a, order_b, order_ab)
    /\ UNCHANGED <<treeVars, scanVars, poolVars, histVars, walkVars, serviceVars, dupVars,
                   args>>

NextDiff == Diff

SpecDiff == InitDiff /\ [][NextDiff]_vars

\* a field of a DiffEntry that diff leaves at its default None
IsNone(e, field) ==
    \/ field = "old_path" /\ e.change # "renamed"
    \/ field = "old_size" /\ e.change = "added"
    \/ field \in {"new_size", "size_delta"} /\ e.change = "removed"

\* sum(e.<field> or 0 for e in list)
RECURSIVE SumOr0(_, _)
SumOr0(list, field) ==
    IF list = <<>> THEN 0
    ELSE (IF IsNone(Head(list), field) THEN 0 ELSE Head(list)[field])
           + SumOr0(Tail(list), field)

\* SnapshotDiff.size_delta
size_delta(d) ==
    SumOr0(d.added \o d.modified \o d.renamed, "size_delta")
      - SumOr0(d.removed, "old_size")

MaxSelfFiles == 2    \* files of the snapshot compared with itself, at most

\* one snapshot, given to diff as snap_a and as snap_b
InitSelfDiff ==
    /\ heap = <<>> /\ trees = <<>>
    /\ last = [op |-> "init"] /\ merged = {} /\ ops = 0
    /\ ScanIdle
    /\ PoolIdle
    /\ WalkIdle
    /\ DupIdle
    /\ ServiceIdle
    /\ enqueued = {} /\ got = <<>> /\ failed = {} /\ stopped = {}
    /\ \E n \in 0..MaxSelfFiles :
          \E a \in FileLists(n) :
             args = [op |-> "diff", snap_a |-> a, snap_b |-> a]
    /\ result = <<>>

SpecSelfDiff == InitSelfDiff /\ [][NextDiff]_vars

----------------------------------------------------------------------------
(* Properties of SpecDiff *)

\* diff has returned
Diffed == args # <<>> /\ args.op = "diff" /\ result # <<>>

OnlyA == PathsOf(args.snap_a) \ PathsOf(args.snap_b)
OnlyB == PathsOf(args.snap_b) \ PathsOf(args.snap_a)

\* the entries of the four lists
Entries ==
    result.added \o result.removed \o result.modified \o result.renamed

\* the paths an entry names, as path or as old_path
Names(e) == IF e.change = "renamed" THEN {e.path, e.old_path} ELSE {e.path}

\* the paths of a list's entries
EntryPaths(list) == { list[i].path : i \in DOMAIN list }

\* the old paths of the renamed entries
OldPaths == { result.renamed[i].old_path : i \in DOMAIN result.renamed }

\* C23: after diff(a, b), no path is named (as path or old_path) by more
\* than one entry of added, removed, modified and renamed; every path only
\* in a is removed or the old_path of a rename; every path only in b is
\* added or the path of a rename.
C23_Partition ==
    Diffed =>
        /\ \A i, j \in DOMAIN Entries :
              i # j => Names(Entries[i]) \cap Names(Entries[j]) = {}
        /\ \A p \in OnlyA : p \in EntryPaths(result.removed) \cup OldPaths
        /\ \A p \in OnlyB :
              p \in EntryPaths(result.added) \cup EntryPaths(result.renamed)

\* C24: every renamed entry of diff(a, b) pairs one a-only path with one
\* b-only path, a b-only path is the target of at most one rename, and so
\* |renamed| + |removed| = |A \ B| and |renamed| + |added| = |B \ A|.
C24_RenameConsumes ==
    Diffed =>
        /\ \A i \in DOMAIN result.renamed :
              /\ result.renamed[i].old_path \in OnlyA
              /\ result.renamed[i].path \in OnlyB
        /\ \A i, j \in DOMAIN result.renamed :
              i # j => result.renamed[i].path # result.renamed[j].path
        /\ Len(result.renamed) + Len(result.removed) = Cardinality(OnlyA)
        /\ Len(result.renamed) + Len(result.added) = Cardinality(OnlyB)

\* files of equal content hash
SameHash(fa, fb) == Truthy(fa.sha256) /\ fa.sha256 = fb.sha256

\* the b-only paths whose file has the content hash of a's file at path
Candidates(path) ==
    { p \in OnlyB :
        SameHash(FileAt(args.snap_a, path), FileAt(args.snap_b, p)) }

\* the set of entries of what diff returns for the two snapshots
DiffSets(snap_a, snap_b, order_a, order_b, order_ab) ==
    LET r == diff(snap_a, snap_b, order_a, order_b, order_ab)
    IN  [added |-> Range(r.added), removed |-> Range(r.removed),
         modified |-> Range(r.modified), renamed |-> Range(r.renamed)]

\* C25: a renamed entry pairs its a-only file with the lexicographically
\* smallest candidate no earlier entry has consumed, and the entries of
\* diff(a, b) are the same for every order of the files inside a and b.
C25_RenameTieBreak ==
    Diffed =>
        /\ \A i \in DOMAIN result.renamed :
              LET unconsumed ==
                      Candidates(result.renamed[i].old_path)
                        \ { result.renamed[j].path : j \in 1..(i - 1) }
              IN  /\ result.renamed[i].path \in unconsumed
                  /\ \A p \in unconsumed :
                        ~PathLess(p, result.renamed[i].path)
        /\ \A a \in LoopOrders(Range(args.snap_a)),
              b \in LoopOrders(Range(args.snap_b)) :
              \A order_a \in LoopOrders(OnlyA), order_b \in LoopOrders(OnlyB),
                 order_ab \in LoopOrders(PathsOf(args.snap_a)
                                           \cap PathsOf(args.snap_b)) :
                 DiffSets(a, b, order_a, order_b, order_ab)
                   = [added |-> Range(result.added),
                      removed |-> Range(result.removed),
                      modified |-> Range(result.modified),
                      renamed |-> Range(result.renamed)]

\* a field of the two records differs
Differs(fa, fb) ==
    \/ fa.sha256 # fb.sha256
    \/ fa.size # fb.size
    \/ fa.mtime # fb.mtime

\* C26: a path present in both snapshots is in modified iff content hash,
\* size or mtime of its two records differ, and is in no list when all
\* three are equal.
C26_ModifiedIffDiffers ==
    Diffed =>
        \A p \in PathsOf(args.snap_a) \cap PathsOf(args.snap_b) :
            LET fa == FileAt(args.snap_a, p)
                fb == FileAt(args.snap_b, p)
            IN  /\ p \in EntryPaths(result.modified) <=> Differs(fa, fb)
                /\ ~Differs(fa, fb) =>
                      \A i \in DOMAIN Entries : p \notin Names(Entries[i])

----------------------------------------------------------------------------
(* SpecType: core/metadata.py, the property Metadata.filetype. A mime type  *)
(* is the pair <<category, subtype>> of "category/subtype".                 *)

\* mime=None
NoMime == <<>>

\* mime=''
EmptyMime == <<"">>

\* str.lower() of the parts of the mime types and suffixes below
Lower(part) ==
    CASE part = "IMAGE" -> "image"
      [] part = "PNG" -> "png"
      [] part = ".PY" -> ".py"
      [] OTHER -> part

\* mime_lower.startswith(category + '/')
StartsWith(mime_lower, category) == mime_lower[1] = category

\* document_mimes
document_mimes ==
    { <<"application", "pdf">>, <<"application", "msword">>,
      <<"application", "vnd.openxmlformats-officedocument">>,
      <<"application", "vnd.ms-excel">>,
      <<"application", "vnd.ms-powerpoint">>, <<"application", "rtf">> }

\* archive_mimes
archive_mimes ==
    { <<"application", "zip">>, <<"application", "x-tar">>,
      <<"application", "x-rar">>, <<"application", "gzip">>,
      <<"application", "x-7z-compressed">>, <<"application", "x-bzip2">> }

\* code_extensions
code_extensions ==
    { ".py", ".js", ".java", ".cpp", ".c", ".h", ".rs", ".go", ".rb",
      ".php", ".swift", ".kt", ".ts", ".jsx", ".tsx" }

\* Metadata.filetype of a Metadata with these tags, mime and path suffix
filetype(m) ==
    IF "DIRECTORY" \in Range(m.tags) \/ m.mime = NoMime
       \/ m.mime = EmptyMime
    THEN "UNKNOWN"
    ELSE
      LET mime_lower == <<Lower(m.mime[1]), Lower(m.mime[2])>>
      IN  IF StartsWith(mime_lower, "image") THEN "IMAGE"
          ELSE IF StartsWith(mime_lower, "audio") THEN "AUDIO"
          ELSE IF StartsWith(mime_lower, "video") THEN "VIDEO"
          ELSE IF StartsWith(mime_lower, "text") THEN "TEXT"
          ELSE IF mime_lower \in document_mimes THEN "DOCUMENT"
          ELSE IF mime_lower \in archive_mimes THEN "ARCHIVE"
          ELSE IF Lower(m.suffix) \in code_extensions THEN "CODE"
          ELSE IF StartsWith(mime_lower, "application") THEN "BINARY"
          ELSE "UNKNOWN"

\* the mime types of a Metadata: None, '', one of each category, a
\* document, an archive, other application types, and an upper case one
Mimes ==
    { NoMime, EmptyMime, <<"image", "png">>, <<"audio", "mpeg">>, <<"video", "mp4">>,
      <<"text", "x-python">>, <<"text", "plain">>,
      <<"application", "pdf">>, <<"application", "zip">>,
      <<"application", "octet-stream">>, <<"application", "json">>,
      <<"inode", "x-empty">>, <<"IMAGE", "PNG">> }

\* path.suffix of the files
Suffixes == { ".py", ".PY", ".txt", "" }

\* the Metadata objects filetype is read of
TypeInputs ==
    { [tags |-> <<tag>>, mime |-> mime, suffix |-> suffix] :
        tag \in {"FILE", "DIRECTORY"}, mime \in Mimes, suffix \in Suffixes }

InitType ==
    /\ heap = <<>> /\ trees = <<>>
    /\ last = [op |-> "init"] /\ merged = {} /\ ops = 0
    /\ ScanIdle
    /\ PoolIdle
    /\ WalkIdle
    /\ DupIdle
    /\ ServiceIdle
    /\ enqueued = {} /\ got = <<>> /\ failed = {} /\ stopped = {}
    /\ \E m \in TypeInputs : args = [op |-> "filetype", metadata |-> m]
    /\ result = <<>>

\* metadata.filetype
Filetype ==
    /\ args # <<>> /\ args.op = "filetype"
    /\ result = <<>>
    /\ result' = <<filetype(args.metadata)>>
    /\ UNCHANGED <<treeVars, scanVars, poolVars, histVars, walkVars, serviceVars, dupVars,
                   args>>

NextType == Filetype

SpecType == InitType /\ [][NextType]_vars

\* the rule in the order of the claim
TypeByRule(m) ==
    IF m.mime = NoMime \/ m.mime = EmptyMime
    THEN "UNKNOWN"
    ELSE
      LET mime == <<Lower(m.mime[1]), Lower(m.mime[2])>>
      IN  IF mime \in document_mimes THEN "DOCUMENT"
          ELSE IF mime \in archive_mimes THEN "ARCHIVE"
          ELSE IF Lower(m.suffix) \in code_extensions THEN "CODE"
          ELSE IF mime[1] = "image" THEN "IMAGE"
          ELSE IF mime[1] = "audio" THEN "AUDIO"
          ELSE IF mime[1] = "video" THEN "VIDEO"
          ELSE IF mime[1] = "text" THEN "TEXT"
          ELSE IF mime[1] = "application" THEN "BINARY"
          ELSE "UNKNOWN"

\* C29: the file_type of a file is derived in this order: empty mime ->
\* UNKNOWN; document mime -> DOCUMENT; archive mime -> ARCHIVE; code
\* extension -> CODE; category image/audio/video/text -> IMAGE/AUDIO/
\* VIDEO/TEXT; application -> BINARY; otherwise UNKNOWN. A .py file with a
\* text/* mime is CODE.
C29_FiletypeOrder ==
    (args # <<>> /\ args.op = "filetype" /\ result # <<>>
       /\ "DIRECTORY" \notin Range(args.metadata.tags)) =>
        result[1] = TypeByRule(args.metadata)

----------------------------------------------------------------------------
(* SpecJson: FilesystemTree.to_json and from_json (core/filesystem.py) with *)
(* the to_dict and from_dict of DirNode, FileNode and Metadata. A Python    *)
(* value is [py |-> its type, v |-> its content]; what json.dump writes is  *)
(* a JSON value [js |-> its type, v |-> its content].                       *)

MaxJsonFiles == 2    \* files attached to the tree that is serialized

PyStr(v) == [py |-> "str", v |-> v]
PyInt(v) == [py |-> "int", v |-> v]
PyList(items) == [py |-> "list", v |-> items]
PyTuple(items) == [py |-> "tuple", v |-> items]
PyBytes(v) == [py |-> "bytes", v |-> v]
PyDict(items) == [py |-> "dict", v |-> items]

\* json.dump raises TypeError for the value: only bytes, of the types here
RECURSIVE Unserializable(_)
Unserializable(value) ==
    CASE value.py = "bytes" -> TRUE
      [] value.py \in {"list", "tuple", "dict"} ->
            \E k \in DOMAIN value.v : Unserializable(value.v[k])
      [] OTHER -> FALSE

\* json.dump(value): lists and tuples are written as arrays
RECURSIVE json_dump(_)
json_dump(value) ==
    CASE value.py = "str" -> [js |-> "string", v |-> value.v]
      [] value.py = "int" -> [js |-> "number", v |-> value.v]
      [] value.py \in {"list", "tuple"} ->
            [js |-> "array",
             v |-> [i \in DOMAIN value.v |-> json_dump(value.v[i])]]
      [] value.py = "dict" ->
            [js |-> "object",
             v |-> [k \in DOMAIN value.v |-> json_dump(value.v[k])]]
      [] value.py = "None" -> [js |-> "null", v |-> value.v]

\* json.load(text): arrays are read as lists
RECURSIVE json_load(_)
json_load(text) ==
    CASE text.js = "string" -> PyStr(text.v)
      [] text.js = "number" -> PyInt(text.v)
      [] text.js = "array" ->
            PyList([i \in DOMAIN text.v |-> json_load(text.v[i])])
      [] text.js = "object" ->
            PyDict([k \in DOMAIN text.v |-> json_load(text.v[k])])
      [] text.js = "null" -> [py |-> "None", v |-> text.v]

\* mime of a Metadata as a Python value: a str or None
PyMime(mime) == IF mime = NoMime THEN [py |-> "None", v |-> mime]
                                 ELSE PyStr(mime)

\* Metadata.to_dict: of a file's Metadata its path, size, tags, times,
\* properties, mime and filetype; of a directory's (DirMetadata) its path
\* and tag
metadata_to_dict(m) ==
    IF "tags" \in DOMAIN m
    THEN PyDict([path |-> PyStr(m.path),
                 size |-> PyInt(m.size),
                 tags |-> PyList([i \in DOMAIN m.tags |-> PyStr(m.tags[i])]),
                 times |-> PyDict([t \in DOMAIN m.times |->
                                     PyStr(m.times[t])]),
                 properties |-> PyDict(m.properties),
                 mime |-> PyMime(m.mime),
                 filetype |-> PyStr(filetype([tags |-> m.tags,
                                              mime |-> m.mime,
                                              suffix |-> ""]))])
    ELSE PyDict([path |-> PyStr(m.path),
                 tags |-> PyList(<<PyStr(m.tag)>>)])

\* Metadata.from_dict
metadata_from_dict(data) ==
    IF "size" \in DOMAIN data.v
    THEN [path |-> data.v.path.v,
          size |-> data.v.size.v,
          tags |-> [i \in DOMAIN data.v.tags.v |-> data.v.tags.v[i].v],
          times |-> [t \in DOMAIN data.v.times.v |-> data.v.times.v[t].v],
          properties |-> data.v.properties.v,
          mime |-> data.v.mime.v]
    ELSE [path |-> data.v.path.v, tag |-> data.v.tags.v[1].v]

\* FileNode.to_dict
file_to_dict(file) ==
    PyDict([path |-> PyStr(file.path),
            metadata |-> metadata_to_dict(file.metadata),
            hashes |-> PyDict([k \in DOMAIN file.hashes |->
                                 PyStr(file.hashes[k])])])

\* FileNode.from_dict
file_from_dict(data) ==
    FileNode(data.v.path.v, metadata_from_dict(data.v.metadata),
             [k \in DOMAIN data.v.hashes.v |-> data.v.hashes.v[k].v])

\* DirNode.to_dict
RECURSIVE dir_to_dict(_, _)
dir_to_dict(h, node) ==
    PyDict([path |-> PyStr(h[node].path),
            metadata |-> metadata_to_dict(h[node].metadata),
            files |-> PyList([i \in DOMAIN h[node].files |->
                                file_to_dict(h[node].files[i])]),
            subdirs |-> PyList([i \in DOMAIN h[node].subdirs |->
                                  dir_to_dict(h, h[node].subdirs[i])])])

\* DirNode.from_dict: the heap with the new DirNode and its subtree, and
\* the new node
RECURSIVE dir_from_dict(_, _)
RECURSIVE SubdirsFromDict(_, _, _, _)

\* subdirs=[cls.from_dict(d) for d in data.get("subdirs", [])], from d = i
SubdirsFromDict(h, list, i, nodes) ==
    IF i > Len(list)
    THEN [heap |-> h, nodes |-> nodes]
    ELSE CHOOSE r \in
           { SubdirsFromDict(c.heap, list, i + 1, Append(nodes, c.node)) :
             c \in {dir_from_dict(h, list[i])} } : TRUE

dir_from_dict(h, data) ==
    CHOOSE r \in
      { [heap |-> Append(c.heap,
                    [path |-> data.v.path.v,
                     metadata |-> metadata_from_dict(data.v.metadata),
                     files |-> [i \in DOMAIN data.v.files.v |->
                                  file_from_dict(data.v.files.v[i])],
                     subdirs |-> c.nodes]),
         node |-> Len(c.heap) + 1] :
        c \in {SubdirsFromDict(h, data.v.subdirs.v, 1, <<>>)} } : TRUE

\* FilesystemTree.compute_stats: the counts and the size
compute_stats(h, tree) ==
    PyDict([total_files |-> PyInt(TreeLen(h, tree)),
            total_dirs |-> PyInt(Len(ReachableDirs(h, tree))),
            total_size |-> PyInt(SumOfSizes(traverse(h, tree)))])

\* FilesystemTree.to_json: what is written to the file, and what is raised
to_json(h, tree) ==
    IF tree.root = None
    THEN [raised |-> "ValueError"]
    ELSE LET data == PyDict([root_path |-> PyStr(tree.root_path),
                             root |-> dir_to_dict(h, tree.root),
                             stats |-> compute_stats(h, tree)])
         IN  IF Unserializable(data)
             THEN [raised |-> "TypeError"]
             ELSE [raised |-> "nothing", file |-> json_dump(data)]

\* FilesystemTree.from_json: the loaded tree, in a heap of its own
from_json(file) ==
    LET data == json_load(file)
    IN  CHOOSE r \in
          { [heap |-> c.heap,
             tree |-> rebuild_index(c.heap,
                        [NewTree(data.v.root_path.v) EXCEPT
                            !.root = c.node])] :
            c \in {dir_from_dict(<<>>, data.v.root)} } : TRUE

\* times of a Metadata
JsonTimes(value) ==
    [CREATED |-> value, ACCESSED |-> value, MODIFIED |-> value]

\* Metadata.extract of a regular file of the given kind: a binary file, a
\* text file, a JPEG and a GIF image with the properties Pillow reports
\* for them (Image.info holds dpi as a tuple, version as bytes), and a
\* file whose extraction failed (_corrupted_metadata)
JsonMetadata(path, kind) ==
    CASE kind = "binary" ->
           [path |-> path, size |-> 3, tags |-> <<"FILE">>,
            times |-> JsonTimes("2024-01-01T00:00:00"),
            properties |-> <<>>,
            mime |-> <<"application", "octet-stream">>]
      [] kind = "text" ->
           [path |-> path, size |-> 3, tags |-> <<"FILE">>,
            times |-> JsonTimes("2024-01-01T00:00:00"),
            properties |->
              [TEXT |-> PyDict([encoding |-> PyStr("utf-8"),
                                lines |-> PyInt(2)])],
            mime |-> <<"text", "plain">>]
      [] kind = "jpeg" ->
           [path |-> path, size |-> 3, tags |-> <<"FILE">>,
            times |-> JsonTimes("2024-01-01T00:00:00"),
            properties |->
              [IMAGE |-> PyDict([format |-> PyStr("JPEG"),
                                 width |-> PyInt(4),
                                 height |-> PyInt(3),
                                 metadata |->
                                   PyDict([dpi |-> PyTuple(<<PyInt(72),
                                                             PyInt(72)>>)])])],
            mime |-> <<"image", "jpeg">>]
      [] kind = "gif" ->
           [path |-> path, size |-> 3, tags |-> <<"FILE">>,
            times |-> JsonTimes("2024-01-01T00:00:00"),
            properties |->
              [IMAGE |-> PyDict([format |-> PyStr("GIF"),
                                 width |-> PyInt(4),
                                 height |-> PyInt(3),
                                 metadata |->
                                   PyDict([version |-> PyBytes("GIF89a")])])],
            mime |-> <<"image", "gif">>]
      [] kind = "corrupted" ->
           [path |-> path, size |-> 0, tags |-> <<"CORRUPTED">>,
            times |-> JsonTimes("unknown"),
            properties |-> <<>>,
            mime |-> NoMime]

JsonKinds == {"binary", "text", "jpeg", "gif", "corrupted"}

\* the hashes a file is attached with: none, or its sha256
JsonHashes == { <<>>, [sha256 |-> <<"a", "1">>] }

\* the tree after attach_file of the files from file k on: every file
\* absent, or attached with some metadata and hashes
RECURSIVE JsonTrees(_, _)
JsonTrees(st, k) ==
    IF k > MaxJsonFiles
    THEN {st}
    ELSE JsonTrees(st, k + 1)
           \cup UNION { JsonTrees(attach_file(st, Discovered(k),
                                   JsonMetadata(Discovered(k), kind), hashes),
                                  k + 1) :
                        kind \in JsonKinds, hashes \in JsonHashes }

InitJson ==
    /\ last = [op |-> "init"] /\ merged = {} /\ ops = 0
    /\ ScanIdle
    /\ PoolIdle
    /\ WalkIdle
    /\ DupIdle
    /\ ServiceIdle
    /\ enqueued = {} /\ got = <<>> /\ failed = {} /\ stopped = {}
    /\ \E st \in JsonTrees([heap |-> <<>>, tree |-> NewTree(ScanRoot)], 1) :
          /\ heap = st.heap
          /\ trees = <<st.tree>>
    /\ args = [op |-> "to_json"]
    /\ result = <<>>

\* trees[1].to_json(filepath)
ToJson ==
    /\ args # <<>> /\ args.op = "to_json"
    /\ result = <<>>
    /\ result' = to_json(heap, trees[1])
    /\ UNCHANGED <<treeVars, scanVars, poolVars, histVars, walkVars, serviceVars, dupVars,
                   args>>

\* FilesystemTree.from_json(filepath) of the file to_json has written
FromJson ==
    /\ args # <<>> /\ args.op = "to_json"
    /\ result # <<>>
    /\ result.raised = "nothing"
    /\ \E r \in {from_json(result.file)} :
          /\ args' = [op |-> "from_json", file |-> result.file]
          /\ result' = [raised |-> "nothing", heap |-> r.heap,
                        tree |-> r.tree]
    /\ UNCHANGED <<treeVars, scanVars, poolVars, histVars, walkVars, serviceVars, dupVars>>

NextJson == ToJson \/ FromJson

SpecJson == InitJson /\ [][NextJson]_vars

\* C27: to_json of a non-empty Tree writes a file, and from_json of that
\* file is a Tree equal to the original: same root path, same directories,
\* and for every file the same path, metadata fields and hashes.
C27_RoundTrip ==
    /\ (args # <<>> /\ args.op = "to_json" /\ result # <<>>
          /\ trees[1].root # None)
         => result.raised = "nothing"
    /\ (args # <<>> /\ args.op = "from_json")
         => /\ TreeValue(result.heap, result.tree)
                 = TreeValue(heap, trees[1])
            /\ traverse(result.heap, result.tree) = traverse(heap, trees[1])

----------------------------------------------------------------------------
(* More properties of the detector (SpecDup) *)

\* the content hashes that at least 2 indexed files have
SharedHashes ==
    { f.hashes.sha256 :
        f \in { g \in Range(added) :
                  /\ HasHash(g, "sha256")
                  /\ \E h \in Range(added) :
                        /\ h # g
                        /\ HasHash(h, "sha256")
                        /\ h.hashes.sha256 = g.hashes.sha256 } }

\* C33: detect_exact_duplicates returns one EXACT group for each content
\* hash with at least 2 indexed members, also for hashes that share the
\* prefix the group id is made of.
C33_OneGroupPerHash ==
    dup_last.op = "exact" =>
        Len(exact_duplicates) = Cardinality(SharedHashes)

----------------------------------------------------------------------------
(* SpecBK: services/duplicate.py, class BKTree.  One BKTree; hashes are    *)
(* added one by one and search is called at any time in between.  The     *)
(* Node objects are kept in the order of their creation, the root first;   *)
(* a Node's children dict is the sequence of its (distance, child) items   *)
(* in insertion order.  The k-th file added is FileNode k.                  *)

MaxBkAdds == 3

\* perceptual hashes of three bits
BkHashes == 0..7

BkThresholds == 0..2

\* BKTree.Node.__init__
Node(value, file_node) ==
    [value |-> value, file_node |-> file_node, children |-> <<>>]

\* "distance in current.children"
HasChild(node, distance) ==
    \E i \in DOMAIN node.children : node.children[i].dist = distance

\* current.children[distance]
Child(node, distance) ==
    node.children[CHOOSE i \in DOMAIN node.children :
                      node.children[i].dist = distance].child

\* BKTree.add, the loop "while True" from current
RECURSIVE AddLoop(_, _, _, _)
AddLoop(t, current, phash, file_node) ==
    LET distance == hamming_distance(phash, t[current].value)
    IN  IF HasChild(t[current], distance)
        THEN AddLoop(t, Child(t[current], distance), phash, file_node)
        ELSE Append([t EXCEPT ![current].children =
                        Append(@, [dist |-> distance, child |-> Len(t) + 1])],
                    Node(phash, file_node))

\* BKTree.add(phash, file_node)
bk_add(t, phash, file_node) ==
    IF t = <<>> THEN <<Node(phash, file_node)>>
    ELSE AddLoop(t, 1, phash, file_node)

\* a search that follows only the edges from distance - threshold up to
\* distance
InWindowLowerHalf(edge_dist, distance, threshold) ==
    IF distance - threshold > 0
    THEN distance - threshold <= edge_dist /\ edge_dist <= distance
    ELSE 0 <= edge_dist /\ edge_dist <= distance

\* _search_recursive: min_dist = max(0, distance - threshold),
\* max_dist = distance + threshold, "min_dist <= edge_dist <= max_dist"
InWindow(edge_dist, distance, threshold) ==
    IF distance - threshold > 0
    THEN distance - threshold <= edge_dist
           /\ edge_dist <= distance + threshold
    ELSE 0 <= edge_dist /\ edge_dist <= distance + threshold

\* BKTree._search_recursive(node, target, threshold, results): results
\* after the call
RECURSIVE search_recursive(_, _, _, _, _)
RECURSIVE SearchChildren(_, _, _, _, _, _)

\* the loop "for edge_dist, child in node.children.items()" from item i
SearchChildren(t, node, i, target, threshold, results) ==
    IF i > Len(t[node].children) THEN results
    ELSE LET item == t[node].children[i]
             distance == hamming_distance(target, t[node].value)
         IN  SearchChildren(t, node, i + 1, target, threshold,
                 IF InWindow(item.dist, distance, threshold)
                 THEN search_recursive(t, item.child, target, threshold,
                                       results)
                 ELSE results)

search_recursive(t, node, target, threshold, results) ==
    LET distance == hamming_distance(target, t[node].value)
    IN  SearchChildren(t, node, 1, target, threshold,
            IF distance <= threshold
            THEN Append(results, <<t[node].file_node, distance>>)
            ELSE results)

\* BKTree.search(phash, threshold)
bk_search(t, phash, threshold) ==
    IF t = <<>> THEN <<>>
    ELSE search_recursive(t, 1, phash, threshold, <<>>)

InitBK ==
    /\ heap = <<>> /\ trees = <<>>
    /\ last = [op |-> "init"] /\ merged = {} /\ ops = 0
    /\ enqueued = {} /\ got = <<>> /\ failed = {} /\ stopped = {}
    /\ ScanIdle
    /\ PoolIdle
    /\ WalkIdle
    /\ DupIdle
    /\ PureIdle
    /\ TransformIdle
    /\ ApiIdle
    /\ bktree = <<>>
    /\ bk_added = <<>>

\* tree.add(phash, file_node) with a new FileNode
BKAdd(phash) ==
    /\ Len(bk_added) < MaxBkAdds
    /\ \E file_node \in {Len(bk_added) + 1} :
          /\ bktree' = bk_add(bktree, phash, file_node)
          /\ bk_added' = Append(bk_added,
                                [phash |-> phash, file_node |-> file_node])
          /\ args' = [op |-> "add", phash |-> phash]
          /\ result' = <<>>
    /\ UNCHANGED <<treeVars, scanVars, poolVars, histVars, walkVars, dupVars,
                   transformVars, apiVars>>

\* tree.search(phash, threshold)
BKSearch(phash, threshold) ==
    /\ args' = [op |-> "search", phash |-> phash, threshold |-> threshold]
    /\ result' = bk_search(bktree, phash, threshold)
    /\ UNCHANGED <<treeVars, scanVars, poolVars, histVars, walkVars, dupVars,
                   transformVars, apiVars, bkVars>>

NextBK ==
    \/ \E phash \in BkHashes : BKAdd(phash)
    \/ \E phash \in BkHashes, threshold \in BkThresholds :
          BKSearch(phash, threshold)

SpecBK == InitBK /\ [][NextBK]_vars

----------------------------------------------------------------------------
(* Properties of BKTree (SpecBK) *)

\* the entries a linear scan over everything inserted finds: the index of
\* the insertion stands for the entry
LinearScan(phash, threshold) ==
    { k \in DOMAIN bk_added :
        hamming_distance(bk_added[k].phash, phash) <= threshold }

\* C32: search(h, t) returns exactly the inserted entries within distance
\* t of h, each once and with its distance, as a linear scan would.
C32_SearchIsLinearScan ==
    (args # <<>> /\ args.op = "search") =>
        /\ Len(result) = Cardinality(LinearScan(args.phash, args.threshold))
        /\ \A k \in LinearScan(args.phash, args.threshold) :
              \E i \in DOMAIN result :
                  result[i] = <<bk_added[k].file_node,
                                hamming_distance(bk_added[k].phash,
                                                 args.phash)>>

\* C32: a search on a tree of three entries, two of them with the same
\* hash, found some entries and left one out.
C32_Witness ==
    /\ args # <<>> /\ args.op = "search"
    /\ Len(bk_added) = 3
    /\ \E i, j \in DOMAIN bk_added :
          i # j /\ bk_added[i].phash = bk_added[j].phash
    /\ Len(result) \in 1..2
    /\ \E i \in DOMAIN result : result[i][2] > 0

----------------------------------------------------------------------------
(* More properties of diff (SpecDiff, SpecSelfDiff) *)

\* Snapshot.total_size: the sum of the files' sizes
RECURSIVE TotalSize(_)
TotalSize(files) ==
    IF files = <<>> THEN 0 ELSE Head(files).size + TotalSize(Tail(files))

\* C34: size_delta of diff(a, b) is the total size of b's files minus the
\* total size of a's files.
C34_SizeDelta ==
    Diffed =>
        size_delta(result) = TotalSize(args.snap_b) - TotalSize(args.snap_a)

\* C35: diff(a, a) has no added, removed, modified or renamed entry.
C35_SelfDiffEmpty ==
    (Diffed /\ args.snap_a = args.snap_b) =>
        /\ result.added = <<>>
        /\ result.removed = <<>>
        /\ result.modified = <<>>
        /\ result.renamed = <<>>

\* C35: a snapshot with two files of one content hash, or with a file
\* that has no hash, was compared with itself.
C35_Witness ==
    /\ Diffed
    /\ args.snap_a = args.snap_b
    /\ Len(args.snap_a) = 2
    /\ \/ args.snap_a[1].sha256 = args.snap_a[2].sha256
       \/ args.snap_a[1].sha256 = PyNone

----------------------------------------------------------------------------
(* SpecTransform: services/transform.py.  One Transformer, built with      *)
(* dry_run set or not, on a filesystem of directories and regular files;   *)
(* the FileNodes it is given come from an earlier scan, so a file may be   *)
(* gone.  A path is the tuple of its parts.                                 *)

MaxTransformOps == 2    \* calls on the Transformer, at most

TransformFile1 == <<"src", "f1">>
TransformFile2 == <<"src", "f2">>

\* the lists of FileNodes given to an operation
TransformFileLists ==
    { <<TransformFile1>>, <<TransformFile1, TransformFile2>>,
      <<TransformFile2, TransformFile1>> }

\* target directories: one that may exist and one below it
TargetDirs == { <<"out">>, <<"out", "new">> }

\* the output archive of compress_files
ArchivePath == <<"out", "a.zip">>

None_ == <<"None">>

\* TransformResult(success, source_path, target_path, error)
TransformResult(success, source_path, target_path, error) ==
    [success |-> success, source_path |-> source_path,
     target_path |-> target_path, error |-> error]

\* f"{len(files)} files"
NFiles(files) == str(Len(files)) \o <<" files">>

\* file_node.name
NameOf(path) == path[Len(path)]

\* target_dir.mkdir(parents=True, exist_ok=True)
mkdir(f, target_dir) ==
    [f EXCEPT !.dirs = @ \cup { Prefix(target_dir, n) :
                                  n \in 1..Len(target_dir) }]

\* shutil.move(src, dst) of a regular file to a path in an existing
\* directory: the filesystem after it and what it raised
shutil_move(f, src, dst) ==
    IF src \notin f.files
    THEN [fs |-> f, raised |-> <<"FileNotFoundError">>]
    ELSE IF Parent(dst) \notin f.dirs
    THEN [fs |-> f, raised |-> <<"FileNotFoundError">>]
    ELSE [fs |-> [f EXCEPT !.files = (@ \ {src}) \cup {dst}],
          raised |-> None_]

\* shutil.copy2(src, dst)
shutil_copy2(f, src, dst) ==
    IF src \notin f.files
    THEN [fs |-> f, raised |-> <<"FileNotFoundError">>]
    ELSE IF src = dst
    THEN [fs |-> f, raised |-> <<"SameFileError">>]
    ELSE IF Parent(dst) \notin f.dirs
    THEN [fs |-> f, raised |-> <<"FileNotFoundError">>]
    ELSE [fs |-> [f EXCEPT !.files = @ \cup {dst}], raised |-> None_]

\* file_node.path.unlink()
unlink(f, path) ==
    IF path \notin f.files
    THEN [fs |-> f, raised |-> <<"FileNotFoundError">>]
    ELSE [fs |-> [f EXCEPT !.files = @ \ {path}], raised |-> None_]

\* zipfile.ZipFile(output_path, 'w') then zf.write for each file: the
\* archive is created when it is opened and stays when a write raises
zip_write(f, files, output_path) ==
    IF Parent(output_path) \notin f.dirs
    THEN [fs |-> f, raised |-> <<"FileNotFoundError">>]
    ELSE [fs |-> [f EXCEPT !.files = @ \cup {output_path}],
          raised |-> IF \E i \in DOMAIN files : files[i] \notin f.files
                     THEN <<"FileNotFoundError">> ELSE None_]

\* the loop of move_files / copy_files / delete_files from files[i] on:
\* the filesystem and the results after it
RECURSIVE FilesLoop(_, _, _, _, _, _, _)
FilesLoop(op, dry_run, f, files, i, target_dir, results) ==
    IF i > Len(files)
    THEN [fs |-> f, results |-> results]
    ELSE
      LET path == files[i]
          target_path == IF op = "delete" THEN <<"<deleted>">>
                         ELSE target_dir \o <<NameOf(path)>>
          r == IF op = "move" THEN shutil_move(f, path, target_path)
               ELSE IF op = "copy" THEN shutil_copy2(f, path, target_path)
               ELSE unlink(f, path)
          rs == IF dry_run \/ r.raised = None_
                THEN TransformResult(TRUE, path, target_path, None_)
                ELSE TransformResult(FALSE, path, None_, r.raised)
      IN  FilesLoop(op, dry_run, IF dry_run THEN f ELSE r.fs, files, i + 1,
                    target_dir, Append(results, rs))

\* Transformer.move_files(files, target_dir)
move_files(t, f, files, target_dir) ==
    FilesLoop("move", t.dry_run, mkdir(f, target_dir), files, 1, target_dir,
              <<>>)

\* Transformer.copy_files(files, target_dir)
copy_files(t, f, files, target_dir) ==
    FilesLoop("copy", t.dry_run, mkdir(f, target_dir), files, 1, target_dir,
              <<>>)

\* Transformer.delete_files(files)
delete_files(t, f, files) ==
    FilesLoop("delete", t.dry_run, f, files, 1, <<>>, <<>>)

\* Transformer.compress_files(files, output_path, 'zip'): the filesystem
\* after it, the result and what is appended to self.results
compress_files(t, f, files, output_path) ==
    IF t.dry_run
    THEN [fs |-> f, results |-> <<>>,
          result |-> TransformResult(TRUE, NFiles(files), output_path, None_)]
    ELSE LET r == zip_write(f, files, output_path)
             rs == IF r.raised = None_
                   THEN TransformResult(TRUE, NFiles(files), output_path,
                                        None_)
                   ELSE TransformResult(FALSE, NFiles(files), None_,
                                        r.raised)
         IN  [fs |-> r.fs, results |-> <<rs>>, result |-> rs]

\* Transformer(dry_run), on a filesystem with the directory src, with or
\* without the directory out, and some of the scanned files still there
InitTransform ==
    /\ heap = <<>> /\ trees = <<>>
    /\ last = [op |-> "init"] /\ merged = {} /\ ops = 0
    /\ enqueued = {} /\ got = <<>> /\ failed = {} /\ stopped = {}
    /\ ScanIdle
    /\ PoolIdle
    /\ WalkIdle
    /\ DupIdle
    /\ PureIdle
    /\ BKIdle
    /\ ApiIdle
    /\ \E dirs \in { {<<"src">>}, {<<"src">>, <<"out">>} },
          files \in SUBSET {TransformFile1, TransformFile2} :
          filesystem = [dirs |-> dirs, files |-> files]
    /\ \E dry_run \in BOOLEAN :
          transformer = [dry_run |-> dry_run, results |-> <<>>, calls |-> 0]

\* transformer.move_files(files, target_dir)
MoveFiles(files, target_dir) ==
    /\ transformer.calls < MaxTransformOps
    /\ \E r \in {move_files(transformer, filesystem, files, target_dir)} :
          /\ filesystem' = r.fs
          /\ transformer' = [transformer EXCEPT
                               !.results = @ \o r.results,
                               !.calls = @ + 1]
    /\ UNCHANGED <<treeVars, scanVars, poolVars, histVars, walkVars, dupVars,
                   pureVars, bkVars, apiVars>>

\* transformer.copy_files(files, target_dir)
CopyFiles(files, target_dir) ==
    /\ transformer.calls < MaxTransformOps
    /\ \E r \in {copy_files(transformer, filesystem, files, target_dir)} :
          /\ filesystem' = r.fs
          /\ transformer' = [transformer EXCEPT
                               !.results = @ \o r.results,
                               !.calls = @ + 1]
    /\ UNCHANGED <<treeVars, scanVars, poolVars, histVars, walkVars, dupVars,
                   pureVars, bkVars, apiVars>>

\* transformer.delete_files(files)
DeleteFiles(files) ==
    /\ transformer.calls < MaxTransformOps
    /\ \E r \in {delete_files(transformer, filesystem, files)} :
          /\ filesystem' = r.fs
          /\ transformer' = [transformer EXCEPT
                               !.results = @ \o r.results,
                               !.calls = @ + 1]
    /\ UNCHANGED <<treeVars, scanVars, poolVars, histVars, walkVars, dupVars,
                   pureVars, bkVars, apiVars>>

\* transformer.compress_files(files, output_path)
CompressFiles(files, output_path) ==
    /\ transformer.calls < MaxTransformOps
    /\ \E r \in {compress_files(transformer, filesystem, files,
                                output_path)} :
          /\ filesystem' = r.fs
          /\ transformer' = [transformer EXCEPT
                               !.results = @ \o r.results,
                               !.calls = @ + 1]
    /\ UNCHANGED <<treeVars, scanVars, poolVars, histVars, walkVars, dupVars,
                   pureVars, bkVars, apiVars>>

NextTransform ==
    \/ \E files \in TransformFileLists, target_dir \in TargetDirs :
          MoveFiles(files, target_dir)
    \/ \E files \in TransformFileLists, target_dir \in TargetDirs :
          CopyFiles(files, target_dir)
    \/ \E files \in TransformFileLists : DeleteFiles(files)
    \/ \E files \in TransformFileLists : CompressFiles(files, ArchivePath)

SpecTransform == InitTransform /\ [][NextTransform]_vars

\* C37: with dry_run = True no operation changes the filesystem: no file
\* or directory is created, moved, copied or deleted.
C37_DryRunFrame ==
    [][transformer.dry_run => filesystem' = filesystem]_vars

----------------------------------------------------------------------------
(* SpecApi: api/endpoints.py and db/crud.py.  POST /scans creates a scan   *)
(* record and queues perform_scan_task; the task runs the scan and writes  *)
(* the record, one committed statement at a time, while the overview, tree  *)
(* and duplicates endpoints are called at any time.                        *)

NumScans == 2    \* scans created, at most

ScanIds == 1..NumScans

\* what scanner.scan returns or does: a Tree without files, a Tree with
\* files, or an exception
ScanOutcomes == {"empty", "files", "raises"}

Endpoints == {"overview", "tree", "duplicates"}

\* crud.create_scan: Scan(scan_id, path, status='pending')
NewScan == [status |-> "pending", tree_json |-> FALSE, error |-> FALSE]

\* crud.update_scan_status(db, scan_id, status, error)
update_scan_status(scan, status, error) ==
    [scan EXCEPT !.status = status,
                 !.error = IF error THEN TRUE ELSE @]

\* crud.save_scan_tree(db, scan_id, tree)
save_scan_tree(scan) ==
    [scan EXCEPT !.tree_json = TRUE, !.status = "completed"]

\* crud.bulk_create_files(db, scan_db.id, files) under "if files:": what
\* it raises.  file_node.path is a str, and the call reads
\* file_node.path.suffix
bulk_create_files(files) ==
    IF files = "files" THEN "AttributeError" ELSE "nothing"

\* the guards of get_scan_overview, get_scan_tree and detect_duplicates:
\* the status code, 200 when the scan is served
Response(table, scan_id) ==
    IF scan_id \notin DOMAIN table THEN 404
    ELSE IF table[scan_id].status # "completed" THEN 400
    ELSE IF ~table[scan_id].tree_json THEN 500
    ELSE 200

InitApi ==
    /\ heap = <<>> /\ trees = <<>>
    /\ last = [op |-> "init"] /\ merged = {} /\ ops = 0
    /\ enqueued = {} /\ got = <<>> /\ failed = {} /\ stopped = {}
    /\ ScanIdle
    /\ PoolIdle
    /\ WalkIdle
    /\ DupIdle
    /\ PureIdle
    /\ BKIdle
    /\ TransformIdle
    /\ scans = <<>>
    /\ task = <<>>

\* POST /scans: crud.create_scan, background_tasks.add_task
create_scan ==
    /\ Len(scans) < NumScans
    /\ scans' = Append(scans, NewScan)
    /\ task' = Append(task, [pc |-> "queued", files |-> "none"])
    /\ UNCHANGED <<treeVars, scanVars, poolVars, histVars, walkVars, dupVars,
                   pureVars, bkVars, transformVars>>

\* perform_scan_task: crud.update_scan_status(session, scan_id, 'running')
TaskRunning(scan_id) ==
    /\ scan_id \in DOMAIN task
    /\ task[scan_id].pc = "queued"
    /\ scans' = [scans EXCEPT
                   ![scan_id] = update_scan_status(@, "running", FALSE)]
    /\ task' = [task EXCEPT ![scan_id].pc = "scan"]
    /\ UNCHANGED <<treeVars, scanVars, poolVars, histVars, walkVars, dupVars,
                   pureVars, bkVars, transformVars>>

\* perform_scan_task: tree = scanner.scan(...)
TaskScan(scan_id) ==
    /\ scan_id \in DOMAIN task
    /\ task[scan_id].pc = "scan"
    /\ \E outcome \in ScanOutcomes :
          task' = [task EXCEPT
                     ![scan_id] = IF outcome = "raises"
                                  THEN [pc |-> "except", files |-> "none"]
                                  ELSE [pc |-> "save", files |-> outcome]]
    /\ UNCHANGED <<treeVars, scanVars, poolVars, histVars, walkVars, dupVars,
                   pureVars, bkVars, transformVars, scans>>

\* perform_scan_task: crud.save_scan_tree(session, scan_id, tree)
TaskSave(scan_id) ==
    /\ scan_id \in DOMAIN task
    /\ task[scan_id].pc = "save"
    /\ scans' = [scans EXCEPT ![scan_id] = save_scan_tree(@)]
    /\ task' = [task EXCEPT ![scan_id].pc = "files"]
    /\ UNCHANGED <<treeVars, scanVars, poolVars, histVars, walkVars, dupVars,
                   pureVars, bkVars, transformVars>>

\* perform_scan_task: files = list(tree.traverse()); if files:
\* crud.bulk_create_files(session, scan_db.id, files)
TaskFiles(scan_id) ==
    /\ scan_id \in DOMAIN task
    /\ task[scan_id].pc = "files"
    /\ task' = [task EXCEPT
                  ![scan_id].pc =
                      IF bulk_create_files(task[scan_id].files) = "nothing"
                      THEN "end" ELSE "except"]
    /\ UNCHANGED <<treeVars, scanVars, poolVars, histVars, walkVars, dupVars,
                   pureVars, bkVars, transformVars, scans>>

\* perform_scan_task, "except Exception as e":
\* crud.update_scan_status(session, scan_id, 'failed', error=str(e))
TaskExcept(scan_id) ==
    /\ scan_id \in DOMAIN task
    /\ task[scan_id].pc = "except"
    /\ scans' = [scans EXCEPT
                   ![scan_id] = update_scan_status(@, "failed", TRUE)]
    /\ task' = [task EXCEPT ![scan_id].pc = "end"]
    /\ UNCHANGED <<treeVars, scanVars, poolVars, histVars, walkVars, dupVars,
                   pureVars, bkVars, transformVars>>

\* GET /scans/{scan_id}/overview, GET /scans/{scan_id}/tree,
\* POST /scans/{scan_id}/duplicates, up to the point where the tree is used
Request(endpoint, scan_id) ==
    /\ args' = [op |-> endpoint, scan_id |-> scan_id,
                status |-> IF scan_id \in DOMAIN scans
                           THEN scans[scan_id].status ELSE "none",
                tree_json |-> IF scan_id \in DOMAIN scans
                              THEN scans[scan_id].tree_json ELSE FALSE]
    /\ result' = <<Response(scans, scan_id)>>
    /\ UNCHANGED <<treeVars, scanVars, poolVars, histVars, walkVars, dupVars,
                   bkVars, transformVars, apiVars>>

NextApi ==
    \/ create_scan
    \/ \E scan_id \in ScanIds : TaskRunning(scan_id)
    \/ \E scan_id \in ScanIds : TaskScan(scan_id)
    \/ \E scan_id \in ScanIds : TaskSave(scan_id)
    \/ \E scan_id \in ScanIds : TaskFiles(scan_id)
    \/ \E scan_id \in ScanIds : TaskExcept(scan_id)
    \/ \E endpoint \in Endpoints, scan_id \in ScanIds :
          Request(endpoint, scan_id)

SpecApi == InitApi /\ [][NextApi]_vars

\* the moves a scan record's status may make
StatusMoves ==
    { <<"pending", "running">>, <<"running", "completed">>,
      <<"running", "failed">> }

\* every change of a scan's status in this step is one of StatusMoves
StatusMovesOnly ==
    \A scan_id \in DOMAIN scans :
        scans'[scan_id].status # scans[scan_id].status
           => <<scans[scan_id].status, scans'[scan_id].status>>
                 \in StatusMoves

\* an endpoint answered 200 only for a completed scan with a stored tree
ServedOnlyCompleted ==
    (args # <<>> /\ result = <<200>>)
       => args.status = "completed" /\ args.tree_json

====
